---------------------------- MODULE Spec2Model ----------------------------
(***************************************************************************)
(* A model of the Parsley command line option parser (src/src/parsley.cpp, *)
(* src/src/parsley.h).                                                     *)
(*                                                                         *)
(* A std::string is a sequence of one-character strings, so that the shape *)
(* tests of the parser (length, first character, substr) and the numeric   *)
(* conversions work on characters as the code does.  Error messages are    *)
(* kept as TLA+ strings, built by the same concatenations as the code.     *)
(* A double is a whole part w and a fraction f in 1/RealScale units; over  *)
(* marks a value beyond the range of intp_t.                               *)
(*                                                                         *)
(* Spec and SpecReuse run process and the lookups of its results,          *)
(* SpecQualify the chains of qualifier calls on a spec, SpecConvert the    *)
(* conversions between numbers and text, and SpecHelp optionHelp and its   *)
(* three settings.  SpecScan runs process over the shapes a token can      *)
(* have, SpecEnv over the texts an environment variable can hold, and      *)
(* SpecShare follows the objects that the table of values points to, with  *)
(* the copies that options (), parameters () and operator[] hand out.      *)
(***************************************************************************)
EXTENDS Integers, Sequences, FiniteSets, TLC

\* ------------------------------------------------------------------------
\* Bounds of the model
\* ------------------------------------------------------------------------

\* Longest list of tokens handed to process after the program name.
MaxArgs == 3

\* Number of process calls made on one registry in the reuse specification.
MaxCalls == 2

\* Longest list of tokens handed to process after the program name in the
\* reuse specification.
MaxReuseArgs == 1

\* ------------------------------------------------------------------------
\* Characters and strings
\* ------------------------------------------------------------------------

\* A double is modelled as an integer number of 1/RealScale units.
RealScale == 100

\* The '\0' short name: the option has no short form.
NUL == "NUL"

\* The null pointer std::getenv gives for a variable that is not set (no
\* string: its one element is not a character).
Unset == <<"NULL">>

DigitChars == <<"0", "1", "2", "3", "4", "5", "6", "7", "8", "9">>

IsDigit(c) == \E i \in 1..10 : DigitChars[i] = c

DigitVal(c) == (CHOOSE i \in 1..10 : DigitChars[i] = c) - 1

\* isspace of the C locale: space, tab, newline, vertical tab, form feed,
\* carriage return (the last three are named, not written).
isspace(c) == c \in {" ", "\t", "\n", "VT", "FF", "CR"}

\* The std::string as text, for the error messages.
RECURSIVE Str(_)
Str(s) == IF s = <<>> THEN "" ELSE s[1] \o Str(Tail(s))

\* str.substr (pos): the characters from the zero-based position pos on.
substr(s, pos) == SubSeq(s, pos + 1, Len(s))

\* str.find ("!!", 0) != npos
ContainsBangBang(s) == \E i \in 1..(Len(s) - 1) : s[i] = "!" /\ s[i + 1] = "!"

stripString_LeadingOnly(str) ==
  LET strSize == Len(str)
      starts == {i \in 0..strSize : \A j \in 1..i : isspace(str[j])}
      start == CHOOSE i \in starts : \A k \in starts : k <= i
  IN  SubSeq(str, start + 1, strSize)

stripString(str) ==
  LET strSize == Len(str)
      starts == {i \in 0..strSize : \A j \in 1..i : isspace(str[j])}
      start == CHOOSE i \in starts : \A k \in starts : k <= i
      ends == {e \in start..strSize : \A j \in (e + 1)..strSize : isspace(str[j])}
      end == CHOOSE e \in ends : \A k \in ends : e <= k
  IN  SubSeq(str, start + 1, end)

\* Limits of intp_t (a 32 bit int).
IntMin == -2147483647 - 1
IntMax == 2147483647

\* The magnitude of a number with too many digits for intp_t.
TooBig == 1

\* A double is [over, w, f]: the value w + f/RealScale with 0 <= f <
\* RealScale when over = 0, a value below IntMin when over = -1 and a value
\* of IntMax + 1 or more when over = 1.
Real(w, f) == [over |-> 0, w |-> w, f |-> f]

RealLess(a, b) ==
  \/ a.over < b.over
  \/ a.over = b.over /\ a.over = 0 /\ (a.w < b.w \/ (a.w = b.w /\ a.f < b.f))

\* Number of leading digits of s from position i (one-based) on.
RECURSIVE DigitRun(_, _)
DigitRun(s, i) ==
  IF i <= Len(s) /\ IsDigit(s[i]) THEN 1 + DigitRun(s, i + 1) ELSE 0

\* Minus the value of the digit sequence d, or TooBig when the value is
\* above 2^31 (the magnitude of IntMin).
RECURSIVE NegValue(_)
NegValue(d) ==
  IF d = <<>> THEN 0
  ELSE LET prev == NegValue(SubSeq(d, 1, Len(d) - 1))
           last == DigitVal(d[Len(d)])
       IN  IF prev = TooBig THEN TooBig
           ELSE IF prev < -214748364 THEN TooBig
           ELSE IF prev = -214748364 /\ last > 8 THEN TooBig
           ELSE prev * 10 - last

\* n zero digits.
Zeros(n) == [i \in 1..n |-> "0"]

\* Digits of a natural number, most significant first.
RECURSIVE NatDigits(_)
NatDigits(n) ==
  IF n < 10 THEN <<DigitChars[n + 1]>>
  ELSE NatDigits(n \div 10) \o <<DigitChars[(n % 10) + 1]>>

\* Digits of minus a negative number (IntMin has no positive counterpart).
NegDigits(i) ==
  LET last == (10 - (i % 10)) % 10
  IN  IF i > -10 THEN <<DigitChars[last + 1]>>
      ELSE NatDigits(0 - ((i + last) \div 10)) \o <<DigitChars[last + 1]>>

\* snprintf (buffer, 40, "%d", i)
int2str(i) == IF i < 0 THEN <<"-">> \o NegDigits(i) ELSE NatDigits(i)

\* The number of characters an optional sign takes at the start of temp.
SignLen(temp) == IF Len(temp) >= 1 /\ temp[1] \in {"+", "-"} THEN 1 ELSE 0

\* What a conversion of sscanf yields: matched is FALSE when no number is
\* found, rest is the one-based position of the first character after it.
\* open tells that an exponent mark without digits follows the number,
\* past is then the position after the mark and its sign.
ScannedOpen(matched, value, rest, open, past) ==
  [matched |-> matched, value |-> value, rest |-> rest, open |-> open,
   past |-> past]

Scanned(matched, value, rest) == ScannedOpen(matched, value, rest, FALSE, rest)

\* The conversion %d of sscanf on temp: an optional sign and a run of n
\* digits.  str2int calls it only for numbers within IntMin .. IntMax.
ScanIntDigits(temp, first, n, neg) ==
  Scanned(n > 0, IF first = 2 /\ temp[1] = "-" THEN neg ELSE 0 - neg,
          first + n)

ScanIntFrom(temp, first, n) ==
  ScanIntDigits(temp, first, n, NegValue(SubSeq(temp, first, first + n - 1)))

ScanInt(temp) ==
  ScanIntFrom(temp, SignLen(temp) + 1, DigitRun(temp, SignLen(temp) + 1))

\* Longest exponent the model follows; a longer one is out of every range.
MaxExponent == 12

\* The double with the sign, minus the whole part (or TooBig) and the
\* fraction fh in 1/RealScale units.
RealOf(negative, wholeNeg, fh) ==
  IF wholeNeg = TooBig
  THEN [over |-> IF negative THEN -1 ELSE 1, w |-> 0, f |-> 0]
  ELSE IF ~negative
  THEN IF wholeNeg = IntMin THEN [over |-> 1, w |-> 0, f |-> 0]
       ELSE Real(0 - wholeNeg, fh)
  ELSE IF fh = 0 THEN Real(wholeNeg, 0)
  ELSE IF wholeNeg = IntMin THEN [over |-> -1, w |-> 0, f |-> 0]
  ELSE Real(wholeNeg - 1, RealScale - fh)

\* The double of the digits padded, with the point after the first at of
\* them.
RealOfDigits(negative, padded, at) ==
  RealOf(negative, NegValue(SubSeq(padded, 1, at)),
         0 - NegValue(SubSeq(padded \o Zeros(2), at + 1, at + 2)))

\* The double of the mantissa digits mant, with the point after the first
\* point of them (before them when point < 0, after them when beyond).
RealOfMantissa(negative, mant, point) ==
  IF point < 0 THEN RealOfDigits(negative, Zeros(0 - point) \o mant, 0)
  ELSE IF point > Len(mant)
  THEN RealOfDigits(negative, mant \o Zeros(point - Len(mant)), point)
  ELSE RealOfDigits(negative, mant, point)

\* The value of the exponent from its ne digits at eFirst, at most
\* MaxExponent in magnitude.
ExponentOf(temp, eFirst, ne, eNeg) ==
  IF ne = 0 THEN 0
  ELSE IF temp[eFirst - 1] = "-"
  THEN (IF eNeg = TooBig \/ eNeg < 0 - MaxExponent
        THEN 0 - MaxExponent ELSE eNeg)
  ELSE (IF eNeg = TooBig \/ eNeg < 0 - MaxExponent
        THEN MaxExponent ELSE 0 - eNeg)

\* The exponent part: ne digits from eFirst on (none: no exponent is read).
ScanRealExponent(temp, first, ni, nf, afterMant, eFirst, ne) ==
  ScannedOpen(ni + nf > 0,
          RealOfMantissa(first = 2 /\ temp[1] = "-",
                         SubSeq(temp, first, first + ni - 1)
                           \o SubSeq(temp, first + ni + 1, first + ni + nf),
                         ni + ExponentOf(temp, eFirst, ne,
                                NegValue(SubSeq(temp, eFirst, eFirst + ne - 1)))),
          IF ne > 0 THEN eFirst + ne ELSE afterMant,
          ni + nf > 0 /\ eFirst # 0 /\ ne = 0, eFirst)

\* The position of the first digit of the exponent that may follow the
\* mantissa, or 0 when no 'e' follows it.
ExponentStart(temp, afterMant) ==
  IF ~(afterMant <= Len(temp) /\ temp[afterMant] \in {"e", "E"}) THEN 0
  ELSE IF afterMant + 1 <= Len(temp) /\ temp[afterMant + 1] \in {"+", "-"}
  THEN afterMant + 2
  ELSE afterMant + 1

ScanRealMantissa(temp, first, ni, nf, afterMant, eFirst) ==
  ScanRealExponent(temp, first, ni, nf, afterMant, eFirst,
                   IF eFirst = 0 THEN 0 ELSE DigitRun(temp, eFirst))

ScanRealFraction(temp, first, ni, nf, afterMant) ==
  ScanRealMantissa(temp, first, ni, nf, afterMant,
                   ExponentStart(temp, afterMant))

ScanRealFrom(temp, first, ni, hasDot) ==
  IF hasDot
  THEN ScanRealFraction(temp, first, ni, DigitRun(temp, first + ni + 1),
                        first + ni + 1 + DigitRun(temp, first + ni + 1))
  ELSE ScanRealFraction(temp, first, ni, 0, first + ni)

ScanRealDigits(temp, first, ni) ==
  ScanRealFrom(temp, first, ni,
               first + ni <= Len(temp) /\ temp[first + ni] = ".")

\* The conversion %lf of sscanf on temp, for decimal literals: an optional
\* sign, digits with an optional point (at least one digit), an optional
\* exponent.  The value keeps two digits of the fraction.
ScanReal(temp) ==
  ScanRealDigits(temp, SignLen(temp) + 1, DigitRun(temp, SignLen(temp) + 1))

\* The literal "!!" and the conversion %c of the formats "%lf!!%c" and
\* "%d!!%c": two conversions were made and the character read is 'x'.
SentinelFollows_AnyCharacter(temp, rest) ==
  /\ rest + 2 <= Len(temp)
  /\ temp[rest] = "!"
  /\ temp[rest + 1] = "!"

SentinelFollows(temp, rest) ==
  /\ rest + 2 <= Len(temp)
  /\ temp[rest] = "!"
  /\ temp[rest + 1] = "!"
  /\ temp[rest + 2] = "x"

\* The result of a conversion function and the content of the caller's
\* variable after the call.
Converted(ok, value) == [ok |-> ok, value |-> value]

\* The end of str2real and str2int: sscanf stores the number it converts
\* even when the text after it makes the call fail.
SentinelResult(temp, sc, old) ==
  IF ~sc.matched THEN Converted(FALSE, old)
  ELSE Converted(SentinelFollows(temp, sc.rest), sc.value)

\* The end of str2real when the number may be followed by an exponent mark
\* without digits ("1e", "1.5e-"): the C standard has sscanf take the mark
\* into the number and fail to convert it, storing nothing; the sscanf of
\* the GNU library converts the number before the mark and goes on after
\* the mark.  Both are outcomes.
SentinelOutcomes(temp, sc, old) ==
  IF sc.open
  THEN {Converted(FALSE, old),
        Converted(SentinelFollows(temp, sc.past), sc.value)}
  ELSE {SentinelResult(temp, sc, old)}

SentinelReal(temp, old) == SentinelOutcomes(temp, ScanReal(temp), old)

SentinelInt(temp, old) == SentinelResult(temp, ScanInt(temp), old)

\* str2real (str, value), the outcomes of the call: ok is the result,
\* value the content of the caller's variable after the call (old before
\* it).
str2real(str, old) ==
  IF ContainsBangBang(str) THEN {Converted(FALSE, old)}
  ELSE SentinelReal(stripString(str) \o <<"!", "!", "x">>, old)

\* The part of str2int after the call of str2real.
RangeChecked(str, r, old) ==
  IF ~r.ok THEN Converted(FALSE, old)
  ELSE IF RealLess(r.value, Real(IntMin, 0)) THEN Converted(FALSE, old)
  ELSE IF RealLess(Real(IntMax, 0), r.value) THEN Converted(FALSE, old)
  ELSE SentinelInt(stripString(str) \o <<"!", "!", "x">>, old)

\* str2int (str, value), as str2real.
str2int(str, old) ==
  {RangeChecked(str, r, old) : r \in str2real(str, Real(0, 0))}

\* The outcome of a conversion of a text on which the outcomes agree; for
\* another text there is none, and no formula can be evaluated with it.
Determined(outcomes) == CHOOSE c \in outcomes : \A d \in outcomes : d = c

\* Parsley::real2str: "%.1f" for a whole number, "%g" otherwise (exact for
\* the numbers of less than five digits before the point).
real2str(x) ==
  IF x.f = 0 THEN int2str(x.w) \o <<".", "0">>
  ELSE LET negative == x.w < 0
           whole == IF negative THEN 0 - (x.w + 1) ELSE x.w
           fh == IF negative THEN RealScale - x.f ELSE x.f
           frac == IF fh % 10 = 0 THEN <<DigitChars[(fh \div 10) + 1]>>
                   ELSE <<DigitChars[(fh \div 10) + 1], DigitChars[(fh % 10) + 1]>>
       IN  (IF negative THEN <<"-">> ELSE <<>>) \o NatDigits(whole)
             \o <<".">> \o frac

\* Parsley::join
RECURSIVE join(_, _)
join(args, with) ==
  IF args = <<>> THEN <<>>
  ELSE IF Len(args) = 1 THEN args[1]
  ELSE args[1] \o with \o join(Tail(args), with)

\* indexOf searching from the end: the position of the last item equal to
\* value, or -1.
indexOf_Last(opts, value) ==
  IF \E i \in 1..Len(opts) : opts[i] = value
  THEN (CHOOSE i \in 1..Len(opts) :
           opts[i] = value /\ \A j \in (i + 1)..Len(opts) : opts[j] # value) - 1
  ELSE -1

\* Parsley::indexOf: the zero-based position of the first item equal to
\* value, or -1.
indexOf(opts, value) ==
  IF \E i \in 1..Len(opts) : opts[i] = value
  THEN (CHOOSE i \in 1..Len(opts) :
           opts[i] = value /\ \A j \in 1..(i - 1) : opts[j] # value) - 1
  ELSE -1

\* ------------------------------------------------------------------------
\* Parsley::OptionSpec
\* ------------------------------------------------------------------------

Kinds == {"kFlag", "kStr", "kEnum", "kInt", "kReal"}

\* OptionSpec::OptionSpec (kind, longName, shortName, description, isRequired)
OptionSpec(kindIn, longNameIn, shortNameIn, descriptionIn, isRequiredIn) ==
  [m_kind |-> kindIn,
   m_longName |-> longNameIn,
   m_shortName |-> shortNameIn,
   m_description |-> descriptionIn,
   m_isRequired |-> isRequiredIn,
   m_isSingleton |-> FALSE,
   m_enumOptions |-> <<>>,
   m_rangeIsDefined |-> FALSE,
   m_minIntValue |-> 0,
   m_maxIntValue |-> 0,
   m_minRealValue |-> Real(0, 0),
   m_maxRealValue |-> Real(0, 0),
   m_evIsDefined |-> FALSE,
   m_evName |-> <<>>,
   m_defaultIsDefined |-> FALSE,
   m_defaultStr |-> <<>>,
   m_defaultInt |-> 0,
   m_defaultReal |-> Real(0, 0)]

\* Parsley::help
help ==
  [OptionSpec("kFlag", <<"h", "e", "l", "p">>, "h",
              <<"S", "h", "o", "w", " ", "t", "h", "i", "s", " ",
                "m", "e", "s", "s", "a", "g", "e", " ",
                "a", "n", "d", " ", "e", "x", "i", "t", ".">>, FALSE)
     EXCEPT !.m_isSingleton = TRUE, !.m_defaultIsDefined = TRUE]

\* Parsley::version
version ==
  [OptionSpec("kFlag", <<"v", "e", "r", "s", "i", "o", "n">>, "V",
              <<"S", "h", "o", "w", " ", "v", "e", "r", "s", "i", "o", "n",
                " ", "a", "n", "d", " ", "e", "x", "i", "t", ".">>, FALSE)
     EXCEPT !.m_isSingleton = TRUE, !.m_defaultIsDefined = TRUE]

\* flagSpec without the implicit default.
flagSpec_NoDefault(longName, shortName, description, isSingleton) ==
  [OptionSpec("kFlag", longName, shortName, description, FALSE)
     EXCEPT !.m_isSingleton = isSingleton]

\* Parsley::flagSpec
flagSpec(longName, shortName, description, isSingleton) ==
  [OptionSpec("kFlag", longName, shortName, description, FALSE)
     EXCEPT !.m_defaultIsDefined = TRUE, !.m_isSingleton = isSingleton]

\* Parsley::strSpec
strSpec(longName, shortName, description, isRequired) ==
  OptionSpec("kStr", longName, shortName, description, isRequired)

\* Parsley::enumSpec
enumSpec(longName, shortName, description, enumOptions, isRequired) ==
  [OptionSpec("kEnum", longName, shortName, description, isRequired)
     EXCEPT !.m_enumOptions = enumOptions]

\* Parsley::intSpec
intSpec(longName, shortName, description, isRequired) ==
  OptionSpec("kInt", longName, shortName, description, isRequired)

\* Parsley::realSpec
realSpec(longName, shortName, description, isRequired) ==
  OptionSpec("kReal", longName, shortName, description, isRequired)

\* OptionSpec::OptionSpec (const OptionSpec& other), field by field.
OptionSpecCopy(other) ==
  [OptionSpec(other.m_kind, other.m_longName, other.m_shortName,
              other.m_description, other.m_isRequired)
     EXCEPT !.m_isSingleton = other.m_isSingleton,
            !.m_enumOptions = other.m_enumOptions,
            !.m_rangeIsDefined = other.m_rangeIsDefined,
            !.m_minIntValue = other.m_minIntValue,
            !.m_maxIntValue = other.m_maxIntValue,
            !.m_minRealValue = other.m_minRealValue,
            !.m_maxRealValue = other.m_maxRealValue,
            !.m_evIsDefined = other.m_evIsDefined,
            !.m_evName = other.m_evName,
            !.m_defaultIsDefined = other.m_defaultIsDefined,
            !.m_defaultStr = other.m_defaultStr,
            !.m_defaultInt = other.m_defaultInt,
            !.m_defaultReal = other.m_defaultReal]

\* OptionSpec::defStr, after the clone is made: what becomes of the clone.
defStrClone_AnyValue(clone, defValue) ==
  IF clone.m_kind # "kStr" /\ clone.m_kind # "kEnum" THEN clone
  ELSE IF clone.m_defaultIsDefined THEN clone
  ELSE [clone EXCEPT !.m_defaultStr = defValue, !.m_defaultIsDefined = TRUE]

defStrClone(clone, defValue) ==
  IF clone.m_kind # "kStr" /\ clone.m_kind # "kEnum" THEN clone
  ELSE IF clone.m_defaultIsDefined THEN clone
  ELSE IF clone.m_kind = "kEnum" /\ indexOf(clone.m_enumOptions, defValue) = -1
       THEN clone
  ELSE [clone EXCEPT !.m_defaultStr = defValue, !.m_defaultIsDefined = TRUE]

\* OptionSpec::defStr: the clone that is returned (this is left as it is).
defStr(this, defValue) == defStrClone(OptionSpecCopy(this), defValue)

\* OptionSpec::defInt, after the clone is made: a default outside the range
\* is warned of and kept.
defIntClone_DropOutside(clone, defValue) ==
  IF clone.m_kind # "kInt" THEN clone
  ELSE IF clone.m_defaultIsDefined THEN clone
  ELSE IF /\ clone.m_rangeIsDefined
          /\ (defValue < clone.m_minIntValue \/ defValue > clone.m_maxIntValue)
       THEN clone
  ELSE [clone EXCEPT !.m_defaultInt = defValue, !.m_defaultIsDefined = TRUE]

defIntClone(clone, defValue) ==
  IF clone.m_kind # "kInt" THEN clone
  ELSE IF clone.m_defaultIsDefined THEN clone
  ELSE [clone EXCEPT !.m_defaultInt = defValue, !.m_defaultIsDefined = TRUE]

\* OptionSpec::defInt
defInt(this, defValue) == defIntClone(OptionSpecCopy(this), defValue)

\* OptionSpec::intRange, after the clone is made: a range that excludes the
\* default is warned of and kept.
intRangeClone_Again(clone, min, max) ==
  IF clone.m_kind # "kInt" THEN clone
  ELSE [clone EXCEPT !.m_minIntValue = min, !.m_maxIntValue = max,
                     !.m_rangeIsDefined = TRUE]

intRangeClone(clone, min, max) ==
  IF clone.m_kind # "kInt" THEN clone
  ELSE IF clone.m_rangeIsDefined THEN clone
  ELSE [clone EXCEPT !.m_minIntValue = min, !.m_maxIntValue = max,
                     !.m_rangeIsDefined = TRUE]

\* OptionSpec::intRange
intRange(this, min, max) == intRangeClone(OptionSpecCopy(this), min, max)

\* OptionSpec::defReal, after the clone is made: a default outside the
\* range is warned of and kept.
defRealClone(clone, defValue) ==
  IF clone.m_kind # "kReal" THEN clone
  ELSE IF clone.m_defaultIsDefined THEN clone
  ELSE [clone EXCEPT !.m_defaultReal = defValue, !.m_defaultIsDefined = TRUE]

\* OptionSpec::defReal
defReal(this, defValue) == defRealClone(OptionSpecCopy(this), defValue)

\* OptionSpec::realRange, after the clone is made: a range that excludes
\* the default is warned of and kept.
realRangeClone(clone, min, max) ==
  IF clone.m_kind # "kReal" THEN clone
  ELSE IF clone.m_rangeIsDefined THEN clone
  ELSE [clone EXCEPT !.m_minRealValue = min, !.m_maxRealValue = max,
                     !.m_rangeIsDefined = TRUE]

\* OptionSpec::realRange
realRange(this, min, max) == realRangeClone(OptionSpecCopy(this), min, max)

\* OptionSpec::envVar, after the clone is made.
envVarClone(clone, envVarName) ==
  IF clone.m_evIsDefined THEN clone
  ELSE [clone EXCEPT !.m_evName = envVarName,
                     !.m_evIsDefined = (Len(envVarName) > 0)]

\* OptionSpec::envVar
envVar(this, envVarName) == envVarClone(OptionSpecCopy(this), envVarName)

\* OptionSpec::name, used for the error messages.
name(this) ==
  IF this.m_shortName # NUL
  THEN <<"-", this.m_shortName, ",", " ", "-", "-">> \o this.m_longName
  ELSE <<"-", "-">> \o this.m_longName

\* OptionSpec::range
range(this) ==
  IF this.m_kind # "kInt" /\ this.m_kind # "kReal" THEN <<>>
  ELSE IF ~this.m_rangeIsDefined THEN <<>>
  ELSE LET v1 == IF this.m_kind = "kInt" THEN int2str(this.m_minIntValue)
                 ELSE real2str(this.m_minRealValue)
           v2 == IF this.m_kind = "kInt" THEN int2str(this.m_maxIntValue)
                 ELSE real2str(this.m_maxRealValue)
           text == v1 \o <<" ", "t", "o", " ">> \o v2
       IN  SubSeq(text, 1, IF Len(text) < 39 THEN Len(text) ELSE 39)

\* OptionSpec::enum_set
enum_set(this) ==
  IF this.m_kind # "kEnum" THEN <<"(", "n", "i", "l", ")">>
  ELSE <<"(">> \o join(this.m_enumOptions, <<",", " ">>) \o <<")">>

\* ------------------------------------------------------------------------
\* Parsley::OptionValue, Parsley::ProxyValue, Parsley::OptionValues
\* ------------------------------------------------------------------------

\* OptionValue::OptionValue
OptionValue ==
  [isDefined |-> FALSE, flag |-> FALSE, str |-> <<>>, ival |-> 0,
   real |-> Real(0, 0)]

\* The null OptionSpecPointer.
nullptr == [m_kind |-> "nullptr"]

\* ProxyValue::ProxyValue
ProxyValue ==
  [isDefined |-> FALSE, flag |-> FALSE, str |-> <<>>, ival |-> 0,
   real |-> Real(0, 0), m_alreadySpecified |-> FALSE, m_spec |-> nullptr]

\* The empty std::unordered_map.
EmptyMap == [n \in {} |-> ProxyValue]

\* OptionValues::set
set(theMap, option, value) == (option :> value) @@ theMap

\* operator[] giving a defined record for a name without entry.
Lookup_Defined(theMap, option) ==
  IF option \notin DOMAIN theMap THEN [OptionValue EXCEPT !.isDefined = TRUE]
  ELSE [isDefined |-> theMap[option].isDefined,
        flag |-> theMap[option].flag,
        str |-> theMap[option].str,
        ival |-> theMap[option].ival,
        real |-> theMap[option].real]

\* OptionValues::operator[]: a copy of the value fields of the entry, or a
\* default record when there is none.
Lookup(theMap, option) ==
  IF option \notin DOMAIN theMap THEN OptionValue
  ELSE [isDefined |-> theMap[option].isDefined,
        flag |-> theMap[option].flag,
        str |-> theMap[option].str,
        ival |-> theMap[option].ival,
        real |-> theMap[option].real]

\* ------------------------------------------------------------------------
\* Parsley
\* ------------------------------------------------------------------------

\* The check of the constructor with the short names left out.
SpecListOkay_LongOnly(specList) ==
  ~ \E skip \in 1..Len(specList) : \E count \in (skip + 1)..Len(specList) :
      specList[skip].m_longName = specList[count].m_longName

\* Parsley::Parsley: the value of m_specListOkay after the check of all
\* pairs of specs for equal long names or equal short names.
SpecListOkay(specList) ==
  ~ \E skip \in 1..Len(specList) : \E count \in (skip + 1)..Len(specList) :
      LET specA == specList[skip]
          specB == specList[count]
      IN  \/ specA.m_longName = specB.m_longName
          \/ (specA.m_shortName # NUL
                /\ specA.m_shortName = specB.m_shortName)

\* std::getenv
getenv(environ, evName) ==
  IF evName \in DOMAIN environ THEN environ[evName] ELSE Unset

\* InitialValue with the default forgotten: the record starts undefined.
InitialValue_Undefined(spec) ==
  [ProxyValue EXCEPT !.m_alreadySpecified = FALSE,
                     !.isDefined = FALSE,
                     !.m_spec = spec]

\* InitialValue with a default taken for an occurrence of the option.
InitialValue_DefaultSpecifies(spec) ==
  [ProxyValue EXCEPT !.m_alreadySpecified = spec.m_defaultIsDefined,
                     !.isDefined = spec.m_defaultIsDefined,
                     !.m_spec = spec]

\* The working record of a spec as the first loop of process starts it.
InitialValue(spec) ==
  [ProxyValue EXCEPT !.m_alreadySpecified = FALSE,
                     !.isDefined = spec.m_defaultIsDefined,
                     !.m_spec = spec]

\* The origin of a seed value as the error messages of the first loop name
\* it.
Source(spec, envVarValueAvalable) ==
  IF envVarValueAvalable
  THEN "environment variable " \o Str(spec.m_evName)
  ELSE IF spec.m_defaultIsDefined THEN "default" ELSE ""

\* What the body of the first loop gives for one spec: the working value,
\* or the error that ends process.
Seeded(ok, err, value) == [ok |-> ok, err |-> err, value |-> value]

\* case kFlag taking the lower case forms as well.
SeedFlag_AnyCase(value, envp) ==
  Seeded(TRUE, "",
         [value EXCEPT !.flag =
            envp \in {<<"1">>, <<"Y">>, <<"Y", "E", "S">>, <<"y">>,
                      <<"y", "e", "s">>}])

\* case kFlag of the first loop; envp is the result of getenv.
SeedFlag(value, envp) ==
  Seeded(TRUE, "",
         [value EXCEPT !.flag =
            envp \in {<<"1">>, <<"Y">>, <<"Y", "E", "S">>}])

\* case kStr taking a variable set to the empty string for one not set.
SeedStr_NonEmpty(spec, value, envp) ==
  Seeded(TRUE, "",
         IF envp # Unset /\ envp # <<>>
         THEN [value EXCEPT !.str = envp, !.isDefined = TRUE]
         ELSE [value EXCEPT !.str = spec.m_defaultStr])

\* case kStr of the first loop.
SeedStr(spec, value, envp) ==
  Seeded(TRUE, "",
         IF envp # Unset
         THEN [value EXCEPT !.str = envp, !.isDefined = TRUE]
         ELSE [value EXCEPT !.str = spec.m_defaultStr])

\* case kEnum of the first loop, once value.str is set: i is the index of
\* value.str in the literals.
SeedEnumIndex(spec, value, i, source) ==
  IF ~value.isDefined THEN Seeded(TRUE, "", value)
  ELSE IF i < 0
  THEN Seeded(FALSE,
              "invalid " \o source \o " value for " \o Str(name(spec))
                \o " : " \o Str(value.str) \o " is not one of "
                \o Str(enum_set(spec)),
              [value EXCEPT !.ival = i])
  ELSE Seeded(TRUE, "", [value EXCEPT !.ival = i])

SeedEnumStr(spec, value, source) ==
  SeedEnumIndex(spec, value, indexOf(spec.m_enumOptions, value.str), source)

\* case kEnum of the first loop.
SeedEnum(spec, value, envp) ==
  SeedEnumStr(spec, SeedStr(spec, value, envp).value,
              Source(spec, envp # Unset))

\* case kInt leaving the default when the environment value is no integer.
SeedIntOf_KeepDefault(spec, value, evValue, r) ==
  IF ~r.ok THEN Seeded(TRUE, "", value)
  ELSE Seeded(TRUE, "", [value EXCEPT !.ival = r.value, !.isDefined = TRUE])

\* case kInt of the first loop with an environment value, converted to r.
SeedIntOf(spec, value, evValue, r) ==
  IF ~r.ok
  THEN Seeded(FALSE,
              "invalid " \o Source(spec, TRUE) \o " value for "
                \o Str(name(spec)) \o " : '" \o Str(evValue)
                \o "' is not a valid integer.",
              [value EXCEPT !.ival = r.value])
  ELSE Seeded(TRUE, "", [value EXCEPT !.ival = r.value, !.isDefined = TRUE])

\* case kInt of the first loop: the environment value is converted and is
\* not compared with the range.
SeedInt(spec, value, envp) ==
  IF envp = Unset
  THEN Seeded(TRUE, "", [value EXCEPT !.ival = spec.m_defaultInt])
  ELSE SeedIntOf(spec, value, envp,
                 Determined(str2int(envp, spec.m_defaultInt)))

\* case kReal of the first loop with an environment value, converted to r.
SeedRealOf(spec, value, evValue, r) ==
  IF ~r.ok
  THEN Seeded(FALSE,
              "invalid " \o Source(spec, TRUE) \o " value for "
                \o Str(name(spec)) \o " : '" \o Str(evValue)
                \o "' is not a valid floating point number.",
              [value EXCEPT !.real = r.value])
  ELSE Seeded(TRUE, "", [value EXCEPT !.real = r.value, !.isDefined = TRUE])

\* case kReal of the first loop.
SeedReal(spec, value, envp) ==
  IF envp = Unset
  THEN Seeded(TRUE, "", [value EXCEPT !.real = spec.m_defaultReal])
  ELSE SeedRealOf(spec, value, envp,
                  Determined(str2real(envp, spec.m_defaultReal)))

\* The switch of the first loop.
SeedKind(spec, value, envp) ==
  CASE spec.m_kind = "kFlag" -> SeedFlag(value, envp)
    [] spec.m_kind = "kStr" -> SeedStr(spec, value, envp)
    [] spec.m_kind = "kEnum" -> SeedEnum(spec, value, envp)
    [] spec.m_kind = "kInt" -> SeedInt(spec, value, envp)
    [] spec.m_kind = "kReal" -> SeedReal(spec, value, envp)
    [] OTHER -> Seeded(FALSE, "*** program error", value)

\* The body of the first loop of process for one spec: the working value
\* made of the default and of the environment variable.
SeedValue(spec, environ) ==
  SeedKind(spec, InitialValue(spec),
           IF spec.m_evIsDefined THEN getenv(environ, spec.m_evName)
           ELSE Unset)

\* The first loop of process, from the spec at position k on: the map of
\* working values, or the error of the first spec that fails (its value is
\* not put in the map).
RECURSIVE PhaseA(_, _, _, _)
PhaseASet(specList, environ, k, theMap, r) ==
  IF ~r.ok THEN [ok |-> FALSE, err |-> r.err, theMap |-> theMap]
  ELSE PhaseA(specList, environ, k + 1,
              set(theMap, specList[k].m_longName, r.value))

PhaseA(specList, environ, k, theMap) ==
  IF k > Len(specList) THEN [ok |-> TRUE, err |-> "", theMap |-> theMap]
  ELSE PhaseASet(specList, environ, k, theMap,
                 SeedValue(specList[k], environ))

\* The first spec of the list with the short name c, or nullptr.
FindShort(specList, c) ==
  IF \E k \in 1..Len(specList) : specList[k].m_shortName = c
  THEN specList[CHOOSE k \in 1..Len(specList) :
                  /\ specList[k].m_shortName = c
                  /\ \A j \in 1..(k - 1) : specList[j].m_shortName # c]
  ELSE nullptr

\* The search by long name taking a name that starts the long name of a
\* spec for that name.
FindLong_Prefix(specList, longName) ==
  IF \E k \in 1..Len(specList) :
       /\ Len(longName) <= Len(specList[k].m_longName)
       /\ SubSeq(specList[k].m_longName, 1, Len(longName)) = longName
  THEN specList[CHOOSE k \in 1..Len(specList) :
                  /\ Len(longName) <= Len(specList[k].m_longName)
                  /\ SubSeq(specList[k].m_longName, 1, Len(longName))
                       = longName
                  /\ \A j \in 1..(k - 1) :
                       \/ Len(longName) > Len(specList[j].m_longName)
                       \/ SubSeq(specList[j].m_longName, 1, Len(longName))
                            # longName]
  ELSE nullptr

\* The first spec of the list with the long name longName, or nullptr.
FindLong(specList, longName) ==
  IF \E k \in 1..Len(specList) : specList[k].m_longName = longName
  THEN specList[CHOOSE k \in 1..Len(specList) :
                  /\ specList[k].m_longName = longName
                  /\ \A j \in 1..(k - 1) : specList[j].m_longName # longName]
  ELSE nullptr

\* What process hands back: the return value, the members it leaves, and
\* a record of the run: exit names the return statement taken, seen lists
\* the options recognized by the token scan (position of the option token,
\* long name, value token) and latchAt is the position of the token that
\* set optionsComplete (0: none).
Outcome(ret, err, theMap, params, exit, seen, latchAt) ==
  [ret |-> ret, err |-> err, theMap |-> theMap, params |-> params,
   exit |-> exit, seen |-> seen, latchAt |-> latchAt]

\* The range check with the limits themselves refused.
IntOutOfRange_Exclusive(spec, ival) ==
  ival <= spec.m_minIntValue \/ ival >= spec.m_maxIntValue

\* The range check of an integer given on the command line.
IntOutOfRange(spec, ival) ==
  ival < spec.m_minIntValue \/ ival > spec.m_maxIntValue

\* The range check of a real given on the command line.
RealOutOfRange(spec, real) ==
  RealLess(real, spec.m_minRealValue) \/ RealLess(spec.m_maxRealValue, real)

\* What the switch on the kind of a recognized option gives: the error
\* (err # "") with the return taken, the working record and the number of
\* tokens taken.
Applied(err, exit, value, used) ==
  [err |-> err, exit |-> exit, value |-> value, used |-> used]

\* CHECK_ARGUMENT when no token follows the option.
NoArgument(spec, value) ==
  Applied("option " \o Str(name(spec)) \o " requires an argument.",
          "noarg", value, 1)

\* case kFlag with the flag left as the first loop set it.
ApplyFlag_KeepFlag(value) ==
  Applied("", "", [value EXCEPT !.isDefined = TRUE], 1)

\* case kFlag of the second loop.
ApplyFlag(value) ==
  Applied("", "", [value EXCEPT !.flag = TRUE, !.isDefined = TRUE], 1)

\* case kStr of the second loop.
ApplyStr(value, argValue) ==
  Applied("", "", [value EXCEPT !.str = argValue, !.isDefined = TRUE], 2)

\* case kEnum of the second loop: i is the index of the token in the
\* literals.
ApplyEnum(spec, value, argValue, i) ==
  IF i < 0
  THEN Applied("invalid value for " \o Str(name(spec)) \o " : "
                 \o Str(argValue) \o " is not one of "
                 \o Str(enum_set(spec)),
               "value", [value EXCEPT !.ival = i], 2)
  ELSE Applied("", "",
               [value EXCEPT !.ival = i, !.str = argValue,
                             !.isDefined = TRUE], 2)

\* case kInt of the second loop: r is the conversion of the token.
ApplyInt(spec, value, argValue, r) ==
  IF ~r.ok
  THEN Applied("invalid value for " \o Str(name(spec)) \o " : '"
                 \o Str(argValue) \o "' is not a valid integer.",
               "value", [value EXCEPT !.ival = r.value], 2)
  ELSE IF spec.m_rangeIsDefined /\ IntOutOfRange(spec, r.value)
  THEN Applied("invalid value for " \o Str(name(spec)) \o " : "
                 \o Str(int2str(r.value)) \o " is out of range "
                 \o Str(range(spec)) \o ".",
               "range", [value EXCEPT !.ival = r.value], 2)
  ELSE Applied("", "",
               [value EXCEPT !.ival = r.value, !.isDefined = TRUE], 2)

\* case kReal of the second loop: r is the conversion of the token.
ApplyReal(spec, value, argValue, r) ==
  IF ~r.ok
  THEN Applied("invalid value for " \o Str(name(spec)) \o " : '"
                 \o Str(argValue)
                 \o "' is not a valid floating point number.",
               "value", [value EXCEPT !.real = r.value], 2)
  ELSE IF spec.m_rangeIsDefined /\ RealOutOfRange(spec, r.value)
  THEN Applied("invalid value for " \o Str(name(spec)) \o " : "
                 \o Str(real2str(r.value)) \o " is out of range "
                 \o Str(range(spec)) \o ".",
               "range", [value EXCEPT !.real = r.value], 2)
  ELSE Applied("", "",
               [value EXCEPT !.real = r.value, !.isDefined = TRUE], 2)

\* The cases of the switch that take the token argValue after the option.
ApplyValue(spec, value, argValue) ==
  CASE spec.m_kind = "kStr" -> ApplyStr(value, argValue)
    [] spec.m_kind = "kEnum" ->
         ApplyEnum(spec, value, argValue,
                   indexOf(spec.m_enumOptions, argValue))
    [] spec.m_kind = "kInt" ->
         ApplyInt(spec, value, argValue,
                  Determined(str2int(argValue, value.ival)))
    [] spec.m_kind = "kReal" ->
         ApplyReal(spec, value, argValue,
                   Determined(str2real(argValue, value.real)))

\* The switch taking a token that starts with '-' for no argument.
ApplyOption_NoDashValue(spec, value, arguments, at) ==
  IF spec.m_kind = "kFlag" THEN ApplyFlag(value)
  ELSE IF at + 1 > Len(arguments) THEN NoArgument(spec, value)
  ELSE IF arguments[at + 1] # <<>> /\ arguments[at + 1][1] = "-"
  THEN NoArgument(spec, value)
  ELSE ApplyValue(spec, value, arguments[at + 1])

\* The switch on the kind of a recognized option: at is the position of
\* the option token, value the working record with m_alreadySpecified set.
ApplyOption(spec, value, arguments, at) ==
  IF spec.m_kind = "kFlag" THEN ApplyFlag(value)
  ELSE IF spec.m_kind \notin Kinds
  THEN Applied("*** program error", "program", value, 1)
  ELSE IF at + 1 > Len(arguments) THEN NoArgument(spec, value)
  ELSE ApplyValue(spec, value, arguments[at + 1])

\* The scan without the null option.
IsNullOption_Never(arg) == FALSE

\* arg == "--": the null option, no more options.
IsNullOption(arg) == arg = <<"-", "-">>

\* The parameter test without the case of the empty token.
IsParameter_NonEmpty(arg) == Len(arg) > 0 /\ arg[1] # "-"

\* The token is not an option, so it is the first parameter.
IsParameter(arg) == Len(arg) = 0 \/ arg[1] # "-"

\* m_parameters.push_back (arg)
push_back(params, arg) == Append(params, arg)

\* The scan without the return after a singleton.
SingletonReturn_Never(spec) == FALSE

\* The test that ends process after a recognized option.
SingletonReturn(spec) == spec.m_isSingleton

\* The spec that the option token arg selects, or nullptr; arg has one of
\* the two option formats.
FindSpec(specList, arg) ==
  IF Len(arg) = 2 THEN FindShort(specList, arg[2])
  ELSE FindLong(specList, substr(arg, 2))

\* The token has neither the format -x nor the format --name.
BadFormat(arg) ==
  ~(Len(arg) = 2) /\ ~(Len(arg) >= 3 /\ SubSeq(arg, 1, 2) = <<"-", "-">>)

\* The entry of seen for the option at position iter which took used tokens.
Recognized(arguments, iter, spec, used) ==
  [at |-> iter, option |-> spec.m_longName,
   arg |-> IF used = 2 THEN arguments[iter + 1] ELSE <<>>]

\* The second loop of process, from the token at position iter (one-based)
\* on; index is the loop's counter before its increment.  exit = "end"
\* when the loop runs to the end of the arguments.
RECURSIVE Scan(_, _, _, _, _, _, _, _, _, _)

\* The end of the loop's body with the scan going on after a singleton, the
\* return without the requiredness check made at the end of the arguments.
ScanApplied_ScanOn(specList, arguments, skipProgramName, iter, index, theMap, params, seen, latchAt, spec, r) ==
  IF r.err # ""
  THEN Outcome(FALSE, r.err, theMap, params, r.exit,
               IF r.exit = "noarg" THEN seen
               ELSE Append(seen, Recognized(arguments, iter, spec, r.used)),
               latchAt)
  ELSE IF SingletonReturn(spec)
  THEN [Scan(specList, arguments, skipProgramName, iter + r.used, index + 1,
             FALSE, theMap, params,
             Append(seen, Recognized(arguments, iter, spec, r.used)), latchAt)
          EXCEPT !.exit = IF @ = "end" THEN "singleton" ELSE @]
  ELSE Scan(specList, arguments, skipProgramName, iter + r.used, index + 1,
            FALSE, theMap, params,
            Append(seen, Recognized(arguments, iter, spec, r.used)), latchAt)

\* The end of the loop's body for the recognized option spec: r is what the
\* switch gave; theMap holds the working record as the switch left it.
ScanApplied(specList, arguments, skipProgramName, iter, index, theMap, params, seen, latchAt, spec, r) ==
  IF r.err # ""
  THEN Outcome(FALSE, r.err, theMap, params, r.exit,
               IF r.exit = "noarg" THEN seen
               ELSE Append(seen, Recognized(arguments, iter, spec, r.used)),
               latchAt)
  ELSE IF SingletonReturn(spec)
  THEN Outcome(TRUE, "", theMap, params, "singleton",
               Append(seen, Recognized(arguments, iter, spec, r.used)),
               latchAt)
  ELSE Scan(specList, arguments, skipProgramName, iter + r.used, index + 1,
            FALSE, theMap, params,
            Append(seen, Recognized(arguments, iter, spec, r.used)), latchAt)

\* The switch applied to the working record of spec.
ScanSwitch(specList, arguments, skipProgramName, iter, index, theMap, params, seen, latchAt, spec, r) ==
  ScanApplied(specList, arguments, skipProgramName, iter, index,
              [theMap EXCEPT ![spec.m_longName] = r.value],
              params, seen, latchAt, spec, r)

\* The loop's body for an option token, spec being the result of the
\* search of the spec list.
ScanOption(specList, arguments, skipProgramName, iter, index, theMap, params, seen, latchAt, spec) ==
  IF spec = nullptr
  THEN Outcome(FALSE, "no such option: " \o Str(arguments[iter]), theMap,
               params, "nosuch", seen, latchAt)
  ELSE IF theMap[spec.m_longName].m_alreadySpecified
  THEN Outcome(FALSE, "duplicate option: " \o Str(name(spec)), theMap,
               params, "duplicate", seen, latchAt)
  ELSE ScanSwitch(specList, arguments, skipProgramName, iter, index, theMap,
                  params, seen, latchAt, spec,
                  ApplyOption(spec,
                              [theMap[spec.m_longName]
                                 EXCEPT !.m_alreadySpecified = TRUE],
                              arguments, iter))

\* The loop with the first parameter appended and optionsComplete left
\* unset.
Scan_NoLatch(specList, arguments, skipProgramName, iter, index, optionsComplete, theMap, params, seen, latchAt) ==
  IF iter > Len(arguments)
  THEN Outcome(TRUE, "", theMap, params, "end", seen, latchAt)
  ELSE IF index + 1 = 0 /\ skipProgramName
  THEN Scan(specList, arguments, skipProgramName, iter + 1, index + 1,
            optionsComplete, theMap, params, seen, latchAt)
  ELSE IF optionsComplete
  THEN Scan(specList, arguments, skipProgramName, iter + 1, index + 1,
            TRUE, theMap, push_back(params, arguments[iter]), seen, latchAt)
  ELSE IF IsNullOption(arguments[iter])
  THEN Scan(specList, arguments, skipProgramName, iter + 1, index + 1,
            TRUE, theMap, params, seen, iter)
  ELSE IF IsParameter(arguments[iter])
  THEN Scan(specList, arguments, skipProgramName, iter + 1, index + 1,
            FALSE, theMap, push_back(params, arguments[iter]), seen, latchAt)
  ELSE IF BadFormat(arguments[iter])
  THEN Outcome(FALSE, "invalid option format: " \o Str(arguments[iter]),
               theMap, params, "format", seen, latchAt)
  ELSE ScanOption(specList, arguments, skipProgramName, iter, index, theMap,
                  params, seen, latchAt, FindSpec(specList, arguments[iter]))

Scan(specList, arguments, skipProgramName, iter, index, optionsComplete, theMap, params, seen, latchAt) ==
  IF iter > Len(arguments)
  THEN Outcome(TRUE, "", theMap, params, "end", seen, latchAt)
  ELSE IF index + 1 = 0 /\ skipProgramName
  THEN Scan(specList, arguments, skipProgramName, iter + 1, index + 1,
            optionsComplete, theMap, params, seen, latchAt)
  ELSE IF optionsComplete
  THEN Scan(specList, arguments, skipProgramName, iter + 1, index + 1,
            TRUE, theMap, push_back(params, arguments[iter]), seen, latchAt)
  ELSE IF IsNullOption(arguments[iter])
  THEN Scan(specList, arguments, skipProgramName, iter + 1, index + 1,
            TRUE, theMap, params, seen, iter)
  ELSE IF IsParameter(arguments[iter])
  THEN Scan(specList, arguments, skipProgramName, iter + 1, index + 1,
            TRUE, theMap, push_back(params, arguments[iter]), seen, iter)
  ELSE IF BadFormat(arguments[iter])
  THEN Outcome(FALSE, "invalid option format: " \o Str(arguments[iter]),
               theMap, params, "format", seen, latchAt)
  ELSE ScanOption(specList, arguments, skipProgramName, iter, index, theMap,
                  params, seen, latchAt, FindSpec(specList, arguments[iter]))

\* The third loop asking for the option on the command line: the entries
\* that are required and were not seen by the token scan.
Unmet_NotSpecified(theMap) ==
  {n \in DOMAIN theMap :
     theMap[n].m_spec.m_isRequired /\ ~theMap[n].m_alreadySpecified}

\* The entries of the map that are required and not defined.
Unmet(theMap) ==
  {n \in DOMAIN theMap :
     theMap[n].m_spec.m_isRequired /\ ~theMap[n].isDefined}

\* The third loop of process: the error of the entry the iteration of the
\* unordered map meets first among those required and not defined; the
\* order of the iteration is not specified, so any of them can be the one.
PhaseC(o) ==
  IF Unmet(o.theMap) = {} THEN {o}
  ELSE {[o EXCEPT !.ret = FALSE, !.exit = "required",
                  !.err = "a value is required for: "
                            \o Str(name(o.theMap[n].m_spec))] :
          n \in Unmet(o.theMap)}

\* process after the second loop.
ProcessScanned(b) == IF b.exit = "end" THEN PhaseC(b) ELSE {b}

\* process after the first loop, a being what it gave and parameters the
\* member m_parameters as the entry of process left it.
ProcessSeeded(specList, arguments, skipProgramName, a, parameters) ==
  IF ~a.ok
  THEN {Outcome(FALSE, a.err, a.theMap, parameters, "environment", <<>>, 0)}
  ELSE ProcessScanned(Scan(specList, arguments, skipProgramName, 1, -1,
                           FALSE, a.theMap, parameters, <<>>, 0))

\* m_parameters.clear () with the list left as it is.
ClearParameters_Keep(parameters) == parameters

\* this->m_parameters.clear ()
ClearParameters(parameters) == <<>>

\* OptionValues::clear
clear(theMap) == EmptyMap

\* this->m_errorMessage = "" with the message left as it is.
ResetMessage_Keep(errorMessage) == errorMessage

\* this->m_errorMessage = ""
ResetMessage(errorMessage) == ""

\* The message a path of process leaves: the one it assigns, or the one
\* the entry of process left when it assigns none (err = "").
WithMessage(o, errorMessage) ==
  IF o.err = "" THEN [o EXCEPT !.err = errorMessage] ELSE o

\* process after its entry: optionValues and parameters are the members
\* as the entry left them.
ProcessEntered(specList, specListOkay, environ, arguments, skipProgramName, optionValues, parameters) ==
  IF ~specListOkay
  THEN {Outcome(FALSE, "option specification errors", optionValues,
                parameters, "specs", <<>>, 0)}
  ELSE ProcessSeeded(specList, arguments, skipProgramName,
                     PhaseA(specList, environ, 1, optionValues), parameters)

\* Parsley::process: the outcomes the call can have; errorMessage,
\* optionValues and parameters are the members before the call.
process(specList, specListOkay, environ, arguments, skipProgramName, errorMessage, optionValues, parameters) ==
  {WithMessage(o, ResetMessage(errorMessage)) :
     o \in ProcessEntered(specList, specListOkay, environ, arguments,
                          skipProgramName, clear(optionValues),
                          ClearParameters(parameters))}

\* ------------------------------------------------------------------------
\* The registries, environments and argument vectors of the model
\* ------------------------------------------------------------------------

nName == <<"n", "a", "m", "e">>
nMode == <<"m", "o", "d", "e">>
nCount == <<"c", "o", "u", "n", "t">>
nRate == <<"r", "a", "t", "e">>
nFlag == <<"f", "l", "a", "g">>
descr == <<"T", "h", "e", " ", "o", "p", "t", "i", "o", "n", ".">>
enumChoice == << <<"a", "a", "a">>, <<"b", "b", "b">>, <<"c", "c", "c">> >>
evStr == <<"P", "_", "S", "T", "R">>
evEnum == <<"P", "_", "E", "N", "U", "M">>
evInt == <<"P", "_", "I", "N", "T">>
evReal == <<"P", "_", "R", "E", "A", "L">>
evFlag == <<"P", "_", "F", "L", "A", "G">>

\* The spec lists a Parsley is constructed with, each built by the
\* factory and qualifier calls of the library.
Registries ==
  { <<>>,
    <<help>>,
    <<strSpec(nName, "n", descr, TRUE), help>>,
    <<defStr(strSpec(nName, "n", descr, TRUE), <<"o", "n", "e">>)>>,
    <<envVar(strSpec(nName, NUL, descr, TRUE), evStr)>>,
    <<defStr(enumSpec(nMode, "m", descr,
                      enumChoice \o << <<"b", "b", "b">> >>, FALSE),
             <<"b", "b", "b">>)>>,
    <<envVar(enumSpec(nMode, "m", descr, enumChoice, TRUE), evEnum),
      flagSpec(nFlag, "f", descr, TRUE)>>,
    <<intRange(intSpec(nCount, "c", descr, FALSE), 1, 2)>>,
    <<defInt(intRange(intSpec(nCount, "c", descr, TRUE), 1, 2), 2)>>,
    <<intRange(defInt(intSpec(nCount, "c", descr, FALSE), 7), 1, 2)>>,
    <<envVar(intRange(intSpec(nCount, "c", descr, TRUE), 1, 2), evInt)>>,
    <<defReal(realSpec(nRate, "r", descr, FALSE), Real(2, 50)),
      strSpec(nName, "n", descr, TRUE)>>,
    <<envVar(realRange(realSpec(nRate, "r", descr, TRUE),
                       Real(1, 0), Real(2, 50)), evReal)>>,
    <<strSpec(nName, "n", descr, TRUE), intSpec(nCount, "c", descr, TRUE)>>,
    <<envVar(flagSpec(nFlag, "f", descr, FALSE), evFlag), version>>,
    <<strSpec(nName, NUL, descr, FALSE), strSpec(nMode, NUL, descr, FALSE)>>,
    <<strSpec(nName, "n", descr, FALSE), intSpec(nCount, "n", descr, FALSE)>>,
    <<strSpec(nName, "n", descr, FALSE), help,
      intSpec(nName, "c", descr, FALSE)>>,
    <<help, version, help>> }

\* The registries of the reuse specification.
ReuseRegistries ==
  { <<strSpec(nName, "n", descr, TRUE), help>>,
    <<strSpec(nName, NUL, descr, FALSE), strSpec(nMode, NUL, descr, FALSE)>>,
    <<strSpec(nName, "n", descr, FALSE), intSpec(nCount, "n", descr, FALSE)>>,
    <<strSpec(nName, "n", descr, FALSE), help,
      intSpec(nName, "c", descr, FALSE)>>,
    <<envVar(intSpec(nCount, "c", descr, FALSE), evInt),
      strSpec(nCount, "d", descr, FALSE)>>,
    <<flagSpec(nFlag, "f", descr, FALSE), strSpec(nName, "n", descr, TRUE)>>,
    <<strSpec(nName, "n", descr, TRUE), intSpec(nCount, "c", descr, TRUE)>>,
    <<help, version, help>> }

\* The values an environment variable of the spec is set to.
EnvValues(spec) ==
  CASE spec.m_kind = "kFlag" -> {<<"1">>, <<"Y">>, <<"Y", "E", "S">>, <<"y">>, <<>>}
    [] spec.m_kind = "kStr" -> {<<>>, <<"x">>}
    [] spec.m_kind = "kEnum" -> {<<"c", "c", "c">>, <<"x">>}
    [] spec.m_kind = "kInt" -> {<<"2">>, <<"7">>, <<"x">>}
    [] spec.m_kind = "kReal" -> {<<"2", ".", "5">>, <<"x">>}

\* The environments of a registry: each variable its specs name is either
\* not set or set to one of the values Values gives for the spec.
EnvironmentsOf(specList, Values(_)) ==
  LET named == {k \in 1..Len(specList) : specList[k].m_evIsDefined}
      names == {specList[k].m_evName : k \in named}
      specOf(n) == specList[CHOOSE k \in named : specList[k].m_evName = n]
  IN  {e \in [names -> UNION {Values(specList[k]) : k \in named}
                         \cup {Unset}] :
         \A n \in names : e[n] = Unset \/ e[n] \in Values(specOf(n))}

\* The environments with the values above.
Environments(specList) == EnvironmentsOf(specList, EnvValues)

\* The value tokens tried for an option.
ValueTokens(spec) ==
  CASE spec.m_kind = "kEnum" -> {spec.m_enumOptions[2], <<"B", "b", "b">>}
    [] spec.m_kind = "kInt" ->
         IF spec.m_rangeIsDefined
         THEN {int2str(spec.m_minIntValue - 1), int2str(spec.m_minIntValue),
               int2str(spec.m_maxIntValue), int2str(spec.m_maxIntValue + 1)}
         ELSE {<<"2">>}
    [] spec.m_kind = "kReal" ->
         IF spec.m_rangeIsDefined THEN {<<"2", ".", "5">>, <<"3">>}
         ELSE {<<"2", ".", "5">>}
    [] OTHER -> {}

\* The tokens of the argument vectors of a registry: the two forms of each
\* of its options, values for them, the null option, a plain word, an
\* unknown option, a malformed one and the empty token.
Vocabulary(specList) ==
  {<<"-", "-">>, <<"x">>, <<"-", "z">>, <<"-", "x", "y">>, <<>>}
    \cup UNION {{<<"-", "-">> \o specList[k].m_longName}
                  \cup (IF specList[k].m_shortName = NUL THEN {}
                        ELSE {<<"-", specList[k].m_shortName>>})
                  \cup ValueTokens(specList[k]) : k \in 1..Len(specList)}

\* The sequences of at most n tokens.
TokenLists(tokens, n) == UNION {[1..m -> tokens] : m \in 0..n}

progName == <<"p", "r", "o", "g">>

\* The argument vectors of at most n tokens after the program name, which
\* is there when process is told to skip it.
ArgumentLists(tokens, n, skip) ==
  {(IF skip THEN <<progName>> ELSE <<>>) \o t : t \in TokenLists(tokens, n)}

\* ------------------------------------------------------------------------
\* The help text
\* ------------------------------------------------------------------------

\* n spaces.
Spaces(n) == [i \in 1..n |-> " "]

\* while (line.size() < size) line += " "
PadTo(line, size) ==
  IF Len(line) < size THEN line \o Spaces(size - Len(line)) ELSE line

\* str.find (splitter, pos): the least one-based position from pos on where
\* splitter is found in str, or 0 (npos).
RECURSIVE Find(_, _, _)
Find(str, splitter, pos) ==
  IF pos + Len(splitter) - 1 > Len(str) THEN 0
  ELSE IF SubSeq(str, pos, pos + Len(splitter) - 1) = splitter THEN pos
  ELSE Find(str, splitter, pos + 1)

\* The item kept or dropped by splitString.
Kept1(item, includeEmpty) ==
  IF includeEmpty \/ Len(item) > 0 THEN <<item>> ELSE <<>>

\* The loop of splitString, from the one-based position pos on, with found
\* the result of find.
RECURSIVE SplitAt(_, _, _, _, _)
SplitAt(str, splitter, includeEmpty, pos, found) ==
  IF found = 0 THEN Kept1(SubSeq(str, pos, Len(str)), includeEmpty)
  ELSE Kept1(SubSeq(str, pos, found - 1), includeEmpty)
         \o SplitAt(str, splitter, includeEmpty, found + Len(splitter),
                    Find(str, splitter, found + Len(splitter)))

\* splitString (str, splitter, includeEmpty)
splitString(str, splitter, includeEmpty) ==
  IF Len(splitter) > 0
  THEN SplitAt(str, splitter, includeEmpty, 1, Find(str, splitter, 1))
  ELSE <<str>>

\* The loop of formatLongLine over the items from the i-th on; the text is
\* kept as the sequence of its lines, each ended by nl in the code.
RECURSIVE FormatItems(_, _, _, _, _, _, _)
FormatLine(ds, i, indent, cpl, result, line) ==
  IF Len(line) >= cpl
  THEN FormatItems(ds, i + 1, indent, cpl, Append(result, line), indent, TRUE)
  ELSE FormatItems(ds, i + 1, indent, cpl, result, line, FALSE)

FormatItems(ds, i, indent, cpl, result, line, first) ==
  IF i > Len(ds) THEN (IF ~first THEN Append(result, line) ELSE result)
  ELSE FormatLine(ds, i, indent, cpl, result,
                  IF first THEN line \o ds[i] ELSE line \o <<" ">> \o ds[i])

\* formatLongLine (indent, name, desc, cpl)
formatLongLine(indent, optName, desc, cpl) ==
  FormatItems(splitString(desc, <<" ">>, FALSE), 1, indent, cpl, <<>>,
              PadTo(optName \o <<" ">>, Len(indent)), TRUE)

\* OptionSpec::helpConstraint
helpConstraint(this) ==
  CASE this.m_kind = "kEnum" ->
         <<"A", "l", "l", "o", "w", "e", "d", " ", "v", "a", "l", "u", "e",
           "s", ":", " ">> \o enum_set(this) \o <<".", " ">>
    [] this.m_kind \in {"kReal", "kInt"} ->
         IF this.m_rangeIsDefined
         THEN <<"R", "a", "n", "g", "e", ":", " ">> \o range(this) \o <<".", " ">>
         ELSE <<>>
    [] OTHER -> <<>>

\* OptionSpec::helpDefault
helpDefault(this) ==
  IF ~this.m_defaultIsDefined THEN <<>>
  ELSE <<"D", "e", "f", "a", "u", "l", "t", " ", "v", "a", "l", "u", "e",
         ":", " ">>
         \o (CASE this.m_kind = "kFlag" -> <<"n", "/", "a">>
               [] this.m_kind \in {"kStr", "kEnum"} ->
                    <<"'">> \o this.m_defaultStr \o <<"'">>
               [] this.m_kind = "kInt" -> int2str(this.m_defaultInt)
               [] this.m_kind = "kReal" -> real2str(this.m_defaultReal))
         \o <<".", " ">>

\* OptionSpec::helpEnvVar
helpEnvVar(this) ==
  IF ~this.m_evIsDefined THEN <<>>
  ELSE <<"U", "s", "e", " ", "t", "h", "e", " ">> \o this.m_evName
         \o <<" ", "e", "n", "v", "i", "r", "o", "n", "m", "e", "n", "t",
              " ", "v", "a", "r", "i", "a", "b", "l", "e", " ", "t", "o",
              " ">>
         \o (IF this.m_defaultIsDefined
             THEN <<"o", "v", "e", "r", "r", "i", "d", "e", " ", "t", "h",
                    "e", " ", "d", "e", "f", "a", "u", "l", "t", " ", "v",
                    "a", "l", "u", "e", ".", " ">>
             ELSE <<"p", "r", "o", "v", "i", "d", "e", " ", "a", " ", "d",
                    "e", "f", "a", "u", "l", "t", " ", "v", "a", "l", "u",
                    "e", ".", " ">>)

\* The least and the initial number of characters per line.
MinCpl == 40
DefaultCpl == 92

\* The gap of optionHelp: twenty spaces.
gapSize == 20
gap == Spaces(gapSize)

\* The lines of a description that starts with '!': the parts between the
\* line breaks, the first after the name, the others after the gap.
LiteralLines(prefix, ds) ==
  [i \in 1..Len(ds) |-> (IF i = 1 THEN prefix ELSE gap) \o ds[i]]

\* Parsley::optionHelp, the lines of the description of a spec.
DescriptionLines(spec, cpl) ==
  IF Len(spec.m_description) >= 1 /\ spec.m_description[1] = "!"
  THEN LiteralLines(PadTo(name(spec) \o <<" ">>, gapSize),
                    splitString(SubSeq(spec.m_description, 2,
                                       Len(spec.m_description)),
                                <<"\n">>, TRUE))
  ELSE formatLongLine(gap, name(spec), spec.m_description, cpl)

\* Parsley::optionHelp, the text extra of a spec.
Extra(spec) ==
  (IF spec.m_isRequired /\ ~spec.m_defaultIsDefined
   THEN <<"R", "e", "q", "u", "i", "r", "e", "d", ".", " ">> ELSE <<>>)
    \o (CASE spec.m_kind = "kFlag" ->
               IF spec.m_evIsDefined
               THEN <<"U", "s", "e", " ", "t", "h", "e", " ">> \o spec.m_evName
                      \o <<" ", "e", "n", "v", "i", "r", "o", "n", "m",
                           "e", "n", "t", " ", "v", "a", "r", "i", "a",
                           "b", "l", "e", " ", "s", "e", "t", " ", "t",
                           "o", " ", "'", "Y", "'", ",", " ", "'", "Y",
                           "E", "S", "'", " ", "o", "r", " ", "'", "1",
                           "'", " ", "t", "o", " ", "s", "e", "t", " ",
                           "f", "l", "a", "g", " ", "o", "n", ".", " ">>
               ELSE <<>>
          [] spec.m_kind = "kStr" -> helpDefault(spec) \o helpEnvVar(spec)
          [] spec.m_kind \in {"kEnum", "kInt", "kReal"} ->
               helpConstraint(spec) \o helpDefault(spec) \o helpEnvVar(spec))

\* Parsley::optionHelp, the lines of extra.
ExtraLines(extra, cpl) ==
  IF Len(extra) > 0 THEN formatLongLine(gap, <<>>, extra, cpl) ELSE <<>>

\* Parsley::optionHelp, one pass of the loop over m_specList: the lines
\* written for a spec.
SpecLines(spec, cpl, extraNewLine) ==
  DescriptionLines(spec, cpl) \o ExtraLines(Extra(spec), cpl)
    \o (IF extraNewLine THEN << <<>> >> ELSE <<>>)

\* Parsley::optionHelp, the loop over m_specList from the k-th spec on.
RECURSIVE HelpLines(_, _, _, _)
HelpLines(specList, k, cpl, extraNewLine) ==
  IF k > Len(specList) THEN <<>>
  ELSE SpecLines(specList[k], cpl, extraNewLine)
         \o HelpLines(specList, k + 1, cpl, extraNewLine)

nullDecrption ==
  <<"T", "h", "e", " ", "n", "u", "l", "l", " ", "o", "p", "t", "i", "o",
    "n", " ", "i", "n", "d", "i", "c", "a", "t", "i", "n", "g", " ", "n",
    "o", " ", "m", "o", "r", "e", " ", "o", "p", "t", "i", "o", "n", "s",
    ".", " ", "T", "h", "i", "s", " ", "i", "s", " ", "u", "s", "e", "f",
    "u", "l", " ", "i", "f", "/", "w", "h", "e", "n", " ", "t", "h", "e",
    " ", "i", "n", "i", "t", "i", "a", "l", " ", "p", "a", "r", "a", "m",
    "e", "t", "e", "r", "s", " ", "\"", "l", "o", "o", "k", " ", "l", "i",
    "k", "e", "\"", " ", "o", "p", "t", "i", "o", "n", "s", ".", " ">>

\* Parsley::optionHelp (os): the lines written to os.
optionHelp(specList, cpl, extraNewLine, includeNoMore) ==
  <<<<"O", "p", "t", "i", "o", "n", "s", ":">>>>
    \o HelpLines(specList, 1, cpl, extraNewLine)
    \o (IF includeNoMore
        THEN formatLongLine(gap, <<"-", "-">>, nullDecrption, cpl)
        ELSE <<>>)

\* ------------------------------------------------------------------------
\* The state machine
\* ------------------------------------------------------------------------

VARIABLES
  m_specList,        \* Parsley::m_specList
  m_specListOkay,    \* Parsley::m_specListOkay
  m_errorMessage,    \* Parsley::m_errorMessage
  m_optionValues,    \* Parsley::m_optionValues (theMap)
  m_parameters,      \* Parsley::m_parameters
  environ,           \* the environment of the process
  arguments,         \* the arguments of the last call of process
  skipProgramName,   \* the skipProgramName of the last call of process
  result,            \* what the last call of process returned
  exit,              \* the return statement the last call took
  seen,              \* the options the last token scan recognized
  latchAt,           \* the token that set optionsComplete in the last scan
  callsLeft,         \* the calls of process still to be made
  earlier,           \* what the call of process before the last one left
  option,            \* the name given to the last operator[]
  item,              \* the OptionValue the last operator[] returned
  chain,             \* the OptionSpec objects made by a chain of qualifiers
  qualifiers,        \* the qualifier calls that made them
  held,              \* the object of the chain that the Parsley holds
  x,                 \* the number given to int2str
  text,              \* the text given to str2int and str2real
  plain,             \* the text before white space was put around it
  origin,            \* where the text is from
  intResult,         \* the result of str2int and the caller's variable
  realResult,        \* the result of str2real and the caller's variable
  m_cpl,             \* Parsley::m_cpl
  m_extraNewLine,    \* Parsley::m_extraNewLine
  m_includeNoMore,   \* Parsley::m_includeNoMore
  os,                \* the lines optionHelp wrote to the stream
  heap,              \* the ProxyValue objects made by new, by address
  pointers,          \* the ProxyValuePointers of m_optionValues.theMap
  snapshot           \* what the caller got from options() and parameters()

vars == <<m_specList, m_specListOkay, m_errorMessage, m_optionValues,
          m_parameters, environ, arguments, skipProgramName, result, exit,
          seen, latchAt, callsLeft, earlier, option, item, chain,
          qualifiers, held, x, text, plain, origin, intResult, realResult,
          m_cpl, m_extraNewLine, m_includeNoMore, os, heap, pointers,
          snapshot>>

\* The variables that the calls on a Parsley leave alone.
convertVars == <<x, text, plain, origin, intResult, realResult>>

helpVars == <<m_cpl, m_extraNewLine, m_includeNoMore, os>>

specVars == <<chain, qualifiers, held, convertVars, helpVars>>

shareVars == <<heap, pointers, snapshot>>

\* The caller holds no copy yet: nothing was got from options() or from
\* parameters(); values is the content of the table when it was got, and
\* optionsAt and paramsAt are the calls of process then still to be made.
NoSnapshot ==
  [optionsTaken |-> FALSE, theMap |-> <<>>, values |-> <<>>, optionsAt |-> 0,
   paramsTaken |-> FALSE, params |-> <<>>, paramsAt |-> 0]

\* No ProxyValue object is made and no copy is held.
NoSharing ==
  /\ heap = <<>>
  /\ pointers = <<>>
  /\ snapshot = NoSnapshot

\* The settings of the help text after Parsley::Parsley, nothing written.
NoHelp ==
  /\ m_cpl = DefaultCpl
  /\ m_extraNewLine = FALSE
  /\ m_includeNoMore = FALSE
  /\ os = <<>>


\* What a conversion function left: whether it was called, its result and
\* the content of the caller's variable.
Conversion(called, c) == [called |-> called, ok |-> c.ok, value |-> c.value]

\* No conversion function is called yet; the caller's variables are zero.
NoConversion ==
  /\ x = 0
  /\ text = <<>>
  /\ plain = <<>>
  /\ origin = "none"
  /\ intResult = Conversion(FALSE, Converted(FALSE, 0))
  /\ realResult = Conversion(FALSE, Converted(FALSE, Real(0, 0)))


\* What is kept of a call of process when the next one is made: its
\* result, the number of its parameters and the options it recognized.
Kept(made, ret, parameters, sn) ==
  [made |-> made, ret |-> ret, params |-> Len(parameters),
   options |-> {sn[i].option : i \in 1..Len(sn)}]

\* The state after Parsley::Parsley (specList), no call made yet, in one
\* of the environments of the registry.
ConstructedIn(registries, calls, Environs(_)) ==
  /\ m_specList \in registries
  /\ m_specListOkay = SpecListOkay(m_specList)
  /\ m_errorMessage = ""
  /\ m_optionValues = EmptyMap
  /\ m_parameters = <<>>
  /\ environ \in Environs(m_specList)
  /\ arguments = <<>>
  /\ skipProgramName = TRUE
  /\ result = TRUE
  /\ exit = "none"
  /\ seen = <<>>
  /\ latchAt = 0
  /\ callsLeft = calls
  /\ earlier = Kept(FALSE, TRUE, <<>>, <<>>)
  /\ option = <<>>
  /\ item = OptionValue
  /\ chain = <<>>
  /\ qualifiers = <<>>
  /\ held = 0
  /\ NoConversion
  /\ NoHelp
  /\ NoSharing

\* The state after Parsley::Parsley (specList), no call made yet.
Constructed(registries, calls) ==
  ConstructedIn(registries, calls, Environments)

Init == Constructed(Registries, 1)

InitReuse == Constructed(ReuseRegistries, MaxCalls)

\* bool Parsley::process (arguments, skipProgramName), the arguments being
\* at most maxTokens of the tokens after the program name: the members and
\* the result of the call.
ProcessCall(tokens, maxTokens) ==
  /\ callsLeft > 0
  /\ \E skip \in BOOLEAN :
       \E args \in ArgumentLists(tokens, maxTokens, skip) :
         \E o \in process(m_specList, m_specListOkay, environ, args, skip,
                          m_errorMessage, m_optionValues, m_parameters) :
               /\ arguments' = args
               /\ skipProgramName' = skip
               /\ result' = o.ret
               /\ m_errorMessage' = o.err
               /\ m_optionValues' = o.theMap
               /\ m_parameters' = o.params
               /\ exit' = o.exit
               /\ seen' = o.seen
               /\ latchAt' = o.latchAt
  /\ callsLeft' = callsLeft - 1
  /\ earlier' = IF exit = "none" THEN earlier
                ELSE Kept(TRUE, result, m_parameters, seen)
  /\ UNCHANGED <<m_specList, m_specListOkay, environ, option, item, specVars>>

\* process where no copy of the table is held: the records it makes are
\* followed by their content only.
ProcessTokens(tokens, maxTokens) ==
  /\ ProcessCall(tokens, maxTokens)
  /\ UNCHANGED shareVars

\* process given tokens of the vocabulary of the registry.
Process(maxTokens) == ProcessTokens(Vocabulary(m_specList), maxTokens)

\* The names looked up in the table: the long names of the registry and a
\* name no spec has.
LookupNames ==
  {m_specList[k].m_longName : k \in 1..Len(m_specList)}
    \cup {<<"m", "i", "s", "t", "a", "k", "e">>}

\* OptionValue value = parser.options()[name]; operator[] is const, so the
\* lookups are made once the calls of process are made, and one lookup is
\* followed: it is given what a lookup made after another would be given.
OptionsLookup ==
  /\ exit # "none"
  /\ callsLeft = 0
  /\ option = <<>>
  /\ \E n \in LookupNames :
       /\ option' = n
       /\ item' = Lookup(m_optionValues, n)
  /\ UNCHANGED <<m_specList, m_specListOkay, m_errorMessage, m_optionValues,
                 m_parameters, environ, arguments, skipProgramName, result,
                 exit, seen, latchAt, callsLeft, earlier, specVars,
                 shareVars>>

Next == Process(MaxArgs) \/ OptionsLookup

NextReuse == Process(MaxReuseArgs) \/ OptionsLookup

Spec == Init /\ [][Next]_vars

SpecReuse == InitReuse /\ [][NextReuse]_vars

\* ------------------------------------------------------------------------
\* The chains of qualifier calls
\* ------------------------------------------------------------------------

\* The longest chain of qualifier calls on a spec.
MaxChain == 2

\* The specs the factory functions return.
BaseSpecs ==
  {flagSpec(nFlag, "f", descr, FALSE),
   strSpec(nName, "n", descr, FALSE),
   enumSpec(nMode, "m", descr, enumChoice, FALSE),
   intSpec(nCount, "c", descr, FALSE),
   realSpec(nRate, "r", descr, FALSE)}

\* The arguments the qualifiers are called with.
StrDefaults == {<<"b", "b", "b">>, <<"z">>}
IntDefaults == {2, 7}
IntRanges == {<<1, 3>>, <<5, 9>>}
RealDefaults == {Real(2, 50), Real(7, 0)}
RealRanges == {<<Real(1, 0), Real(3, 0)>>, <<Real(5, 0), Real(9, 50)>>}
EnvNames == {<<>>, evStr, evInt}

\* A qualifier call: its name and its arguments, those it does not take
\* left at the values below.
Call(qualifier, defValue, min, max) ==
  [qualifier |-> qualifier, defValue |-> defValue, min |-> min, max |-> max]

\* No spec is made yet, no Parsley is constructed.
InitQualify ==
  /\ m_specList = <<>>
  /\ m_specListOkay = TRUE
  /\ m_errorMessage = ""
  /\ m_optionValues = EmptyMap
  /\ m_parameters = <<>>
  /\ environ = <<>>
  /\ arguments = <<>>
  /\ skipProgramName = TRUE
  /\ result = TRUE
  /\ exit = "none"
  /\ seen = <<>>
  /\ latchAt = 0
  /\ callsLeft = 0
  /\ earlier = Kept(FALSE, TRUE, <<>>, <<>>)
  /\ option = <<>>
  /\ item = OptionValue
  /\ chain = <<>>
  /\ qualifiers = <<>>
  /\ held = 0
  /\ NoConversion
  /\ NoHelp
  /\ NoSharing

\* The variables of the Parsley, which making a spec leaves alone.
parserVars ==
  <<m_specList, m_specListOkay, m_errorMessage, m_optionValues, m_parameters,
    environ, arguments, skipProgramName, result, exit, seen, latchAt,
    callsLeft, earlier, option, item, shareVars>>

\* spec = Parsley::strSpec (...) and the other factory functions
Factory ==
  /\ chain = <<>>
  /\ \E spec \in BaseSpecs : chain' = <<spec>>
  /\ UNCHANGED <<qualifiers, held, parserVars, convertVars, helpVars>>

\* A qualifier may be called: on the last spec made, which a Parsley may
\* hold already, while the chain is not at its bound.
CanQualify ==
  /\ chain # <<>>
  /\ Len(qualifiers) < MaxChain

\* What a qualifier call leaves: the object it was called on stays where it
\* is and the clone it returns is a new object.
Qualified_InPlace(call, clone) ==
  /\ chain' = Append([chain EXCEPT ![Len(chain)] = clone], clone)
  /\ qualifiers' = Append(qualifiers, call)
  /\ UNCHANGED <<held, parserVars, convertVars, helpVars>>

Qualified(call, clone) ==
  /\ chain' = Append(chain, clone)
  /\ qualifiers' = Append(qualifiers, call)
  /\ UNCHANGED <<held, parserVars, convertVars, helpVars>>

\* spec->defStr (defValue)
DefStr ==
  /\ CanQualify
  /\ \E v \in StrDefaults :
       Qualified(Call("defStr", v, 0, 0), defStr(chain[Len(chain)], v))

\* spec->defInt (defValue)
DefInt ==
  /\ CanQualify
  /\ \E v \in IntDefaults :
       Qualified(Call("defInt", v, 0, 0), defInt(chain[Len(chain)], v))

\* spec->defReal (defValue)
DefReal ==
  /\ CanQualify
  /\ \E v \in RealDefaults :
       Qualified(Call("defReal", v, 0, 0), defReal(chain[Len(chain)], v))

\* spec->intRange (min, max)
IntRange ==
  /\ CanQualify
  /\ \E r \in IntRanges :
       Qualified(Call("intRange", 0, r[1], r[2]),
                 intRange(chain[Len(chain)], r[1], r[2]))

\* spec->realRange (min, max)
RealRange ==
  /\ CanQualify
  /\ \E r \in RealRanges :
       Qualified(Call("realRange", 0, r[1], r[2]),
                 realRange(chain[Len(chain)], r[1], r[2]))

\* spec->envVar (envVarName)
EnvVar ==
  /\ CanQualify
  /\ \E v \in EnvNames :
       Qualified(Call("envVar", v, 0, 0), envVar(chain[Len(chain)], v))

\* Parsley parser ({spec}), with the last spec of the chain, in an
\* environment that does not set the variable the spec names.
Register ==
  /\ chain # <<>>
  /\ m_specList = <<>>
  /\ m_specList' = <<chain[Len(chain)]>>
  /\ m_specListOkay' = SpecListOkay(m_specList')
  /\ environ' \in {e \in Environments(m_specList') :
                     \A n \in DOMAIN e : e[n] = Unset}
  /\ callsLeft' = 1
  /\ held' = Len(chain)
  /\ UNCHANGED <<m_errorMessage, m_optionValues, m_parameters, arguments,
                 skipProgramName, result, exit, seen, latchAt, earlier,
                 option, item, chain, qualifiers, convertVars, helpVars,
                 shareVars>>

\* parser.process ({"prog"}, true) or parser.process ({}, false)
ProcessDefaults == Process(0)

NextQualify ==
  \/ Factory
  \/ DefStr
  \/ DefInt
  \/ DefReal
  \/ IntRange
  \/ RealRange
  \/ EnvVar
  \/ Register
  \/ ProcessDefaults
  \/ OptionsLookup

SpecQualify == InitQualify /\ [][NextQualify]_vars

\* ------------------------------------------------------------------------
\* The conversion functions
\* ------------------------------------------------------------------------

\* The numbers given to int2str: the limits of intp_t, the numbers next to
\* them, the numbers where the count of digits changes and the numbers
\* around a tenth of the limits.
IntInputs ==
  {IntMin, IntMin + 1, -2147483639, -1000000000, -999999999, -214748365,
   -214748364, -100, -99, -10, -9, -1, 0, 1, 9, 10, 99, 100, 214748364,
   214748365, 999999999, 1000000000, 2147483639, IntMax - 1, IntMax}

\* Texts that no number consumes entirely.
BadTexts ==
  {<<>>, <<" ">>, <<"1", "2", "x">>, <<"3", ".", "1", "4", "a", "b", "c">>,
   <<"1", "2", " ", "3">>, <<"1", "2", "!">>, <<"!", "!">>,
   <<"1", "2", "!", "!">>, <<"1", "!", "!", "2">>, <<"!", "!", "x">>,
   <<"x">>, <<"-">>, <<"+">>, <<".">>, <<"-", " ", "5">>, <<"1", "2", "!", "x">>,
   <<"1", "2", "!", "!", "x">>, <<"1", "e", "x">>, <<"-", "-", "5">>}

\* Texts of numbers that are not integers of intp_t: with a fraction, with
\* an exponent, outside the limits.
BadIntTexts ==
  {<<"1", ".", "5">>, <<"1", "e", "3">>, <<"1", ".">>, <<".", "5">>,
   <<"1", ".", "0">>, <<"1", "E", "0">>, <<"1", "e">>,
   <<"1", ".", "5", "e", "-">>,
   <<"2", "1", "4", "7", "4", "8", "3", "6", "4", "8">>,
   <<"-", "2", "1", "4", "7", "4", "8", "3", "6", "4", "9">>,
   <<"9", "9", "9", "9", "9", "9", "9", "9", "9", "9", "9">>,
   <<"-", "9", "9", "9", "9", "9", "9", "9", "9", "9", "9", "9">>,
   <<"4", "2", "9", "4", "9", "6", "7", "2", "9", "6">>,
   <<"4", "2", "9", "4", "9", "6", "7", "2", "9", "7">>}

\* Texts of integers as a user writes them.
GoodTexts ==
  {<<"0">>, <<"+", "5">>, <<"-", "0">>, <<"0", "0", "7">>,
   <<"-", "0", "1", "2">>, <<"+", "2", "1", "4", "7", "4", "8", "3", "6", "4", "7">>}

\* The white space put before and after a text.
Blanks == {<<>>, <<" ">>, <<"\t", " ">>, <<"\n">>, <<" ", "CR", "VT", "FF">>}

\* No Parsley is constructed and no spec is made.
InitConvert ==
  /\ m_specList = <<>>
  /\ m_specListOkay = TRUE
  /\ m_errorMessage = ""
  /\ m_optionValues = EmptyMap
  /\ m_parameters = <<>>
  /\ environ = <<>>
  /\ arguments = <<>>
  /\ skipProgramName = TRUE
  /\ result = TRUE
  /\ exit = "none"
  /\ seen = <<>>
  /\ latchAt = 0
  /\ callsLeft = 0
  /\ earlier = Kept(FALSE, TRUE, <<>>, <<>>)
  /\ option = <<>>
  /\ item = OptionValue
  /\ chain = <<>>
  /\ qualifiers = <<>>
  /\ held = 0
  /\ NoConversion
  /\ NoHelp
  /\ NoSharing

\* The variables the conversion functions leave alone.
notConvertVars ==
  <<m_specList, m_specListOkay, m_errorMessage, m_optionValues, m_parameters,
    environ, arguments, skipProgramName, result, exit, seen, latchAt,
    callsLeft, earlier, option, item, chain, qualifiers, held, helpVars,
    shareVars>>

\* A text is given by the user.
Given ==
  /\ origin = "none"
  /\ \E t \in BadTexts \cup BadIntTexts \cup GoodTexts :
       /\ text' = t
       /\ plain' = t
  /\ origin' = "given"
  /\ UNCHANGED <<x, intResult, realResult, notConvertVars>>

\* text = Parsley::int2str (x)
Int2Str ==
  /\ origin = "none"
  /\ \E i \in IntInputs :
       /\ x' = i
       /\ text' = int2str(i)
       /\ plain' = int2str(i)
  /\ origin' = "int2str"
  /\ UNCHANGED <<intResult, realResult, notConvertVars>>

\* White space is put around the text.
Pad ==
  /\ origin # "none"
  /\ text = plain
  /\ ~intResult.called
  /\ ~realResult.called
  /\ \E before \in Blanks, after \in Blanks :
       text' = before \o plain \o after
  /\ UNCHANGED <<x, plain, origin, intResult, realResult, notConvertVars>>

\* okay = Parsley::str2int (text, value)
Str2Int ==
  /\ origin # "none"
  /\ ~intResult.called
  /\ \E c \in str2int(text, intResult.value) :
       intResult' = Conversion(TRUE, c)
  /\ UNCHANGED <<x, text, plain, origin, realResult, notConvertVars>>

\* okay = Parsley::str2real (text, value)
Str2Real ==
  /\ origin # "none"
  /\ ~realResult.called
  /\ \E c \in str2real(text, realResult.value) :
       realResult' = Conversion(TRUE, c)
  /\ UNCHANGED <<x, text, plain, origin, intResult, notConvertVars>>

NextConvert == Given \/ Int2Str \/ Pad \/ Str2Int \/ Str2Real

SpecConvert == InitConvert /\ [][NextConvert]_vars

\* ------------------------------------------------------------------------
\* The calls that write the help text
\* ------------------------------------------------------------------------

\* The most specs of a registry whose help text is written.
MaxHelpSpecs == 2

nFile == <<"f", "i", "l", "e">>
nQuiet == <<"q", "u", "i", "e", "t">>

\* Descriptions: of spaces only, of more words than a line of MinCpl
\* characters takes, and with the mark '!' and a line break.
blankDescr == <<" ", " ", " ">>
longDescr ==
  <<"S", "e", "t", "s", " ", "t", "h", "e", " ", "r", "a", "t", "e", " ",
    "a", "n", "d", " ", "s", "o", " ", "o", "n", " ", "f", "o", "r", " ",
    "a", "s", " ", "l", "o", "n", "g", " ", "a", "s", " ", "t", "h", "e",
    " ", "r", "u", "n", " ", "t", "a", "k", "e", "s", ".">>
literalDescr ==
  <<"!", "U", "s", "a", "g", "e", ":", "\n", " ", " ", "f", "i", "l", "e",
    " ", "n", "a", "m", "e">>

\* The specs of the registries whose help text is written.
HelpSpecs ==
  {help,
   strSpec(nName, "n", <<>>, TRUE),
   flagSpec(nFlag, "f", <<>>, FALSE),
   envVar(defInt(intRange(intSpec(nCount, NUL, blankDescr, FALSE), 1, 2), 2),
          evInt),
   enumSpec(nMode, "m", descr, enumChoice, TRUE),
   defReal(realRange(realSpec(nRate, "r", longDescr, FALSE),
                     Real(1, 0), Real(2, 50)), Real(2, 50)),
   defStr(strSpec(nFile, "F", literalDescr, FALSE), <<"x">>),
   envVar(flagSpec(nQuiet, "q", descr, FALSE), evFlag)}

\* The spec lists of one to MaxHelpSpecs of these specs, each at most once.
HelpRegistries ==
  {r \in UNION {[1..n -> HelpSpecs] : n \in 1..MaxHelpSpecs} :
     \A i \in 1..Len(r) : \A j \in 1..Len(r) : i # j => r[i] # r[j]}

\* The numbers given to setOptionHelpCpl.
CplInputs == {MinCpl - 1, MinCpl, MinCpl + 10}

\* The state after Parsley::Parsley (specList), no text written yet.
InitHelp ==
  /\ Constructed(HelpRegistries, 0)
  /\ \A n \in DOMAIN environ : environ[n] = Unset

\* The variables the calls for the help text leave alone.
notHelpVars ==
  <<m_specList, m_specListOkay, m_errorMessage, m_optionValues, m_parameters,
    environ, arguments, skipProgramName, result, exit, seen, latchAt,
    callsLeft, earlier, option, item, chain, qualifiers, held, convertVars,
    shareVars>>

\* parser.setOptionHelpCpl (cpl)
SetOptionHelpCpl ==
  /\ os = <<>>
  /\ \E cpl \in CplInputs : m_cpl' = IF cpl >= MinCpl THEN cpl ELSE MinCpl
  /\ UNCHANGED <<m_extraNewLine, m_includeNoMore, os, notHelpVars>>

\* parser.setOptionNewLineSeparator (extraNewLine)
SetOptionNewLineSeparator ==
  /\ os = <<>>
  /\ \E extraNewLine \in BOOLEAN : m_extraNewLine' = extraNewLine
  /\ UNCHANGED <<m_cpl, m_includeNoMore, os, notHelpVars>>

\* parser.setOptionIncludeNoMore (includeNoMore)
SetOptionIncludeNoMore ==
  /\ os = <<>>
  /\ \E includeNoMore \in BOOLEAN : m_includeNoMore' = includeNoMore
  /\ UNCHANGED <<m_cpl, m_extraNewLine, os, notHelpVars>>

\* parser.optionHelp (os), on a stream nothing was written to
OptionHelp ==
  /\ os = <<>>
  /\ os' = optionHelp(m_specList, m_cpl, m_extraNewLine, m_includeNoMore)
  /\ UNCHANGED <<m_cpl, m_extraNewLine, m_includeNoMore, notHelpVars>>

NextHelp ==
  \/ SetOptionHelpCpl
  \/ SetOptionNewLineSeparator
  \/ SetOptionIncludeNoMore
  \/ OptionHelp

SpecHelp == InitHelp /\ [][NextHelp]_vars

\* ------------------------------------------------------------------------
\* The shapes of the tokens
\* ------------------------------------------------------------------------

\* Longest list of tokens handed to process after the program name in the
\* specification of the token shapes.
MaxScanArgs == 3

\* The registries of the specification of the token shapes.
ScanRegistries ==
  { <<strSpec(nName, "n", descr, TRUE), help>>,
    <<flagSpec(nFlag, "f", descr, FALSE),
      intRange(intSpec(nCount, "c", descr, TRUE), 1, 2)>>,
    <<envVar(enumSpec(nMode, NUL, descr, enumChoice, FALSE), evEnum),
      flagSpec(nFlag, "f", descr, TRUE)>> }

\* Tokens that resemble the options of the spec: its two forms, its long
\* form cut short by a character, with "=x" after it and with the short
\* name before it.
ShapesOf(spec) ==
  {<<"-", "-">> \o spec.m_longName,
   <<"-", "-">> \o SubSeq(spec.m_longName, 1, Len(spec.m_longName) - 1),
   <<"-", "-">> \o spec.m_longName \o <<"=", "x">>}
    \cup (IF spec.m_shortName = NUL THEN {<<"-">> \o spec.m_longName}
          ELSE {<<"-", spec.m_shortName>>,
                <<"-", spec.m_shortName>> \o spec.m_longName})

\* One value the option takes and, for a number, one it refuses.
ShapeValues(spec) ==
  CASE spec.m_kind = "kEnum" -> {spec.m_enumOptions[2]}
    [] spec.m_kind = "kInt" -> {<<"2">>, <<"3">>}
    [] OTHER -> {}

\* The tokens of the argument vectors of a registry in the specification
\* of the token shapes.
ScanVocabulary(specList) ==
  {<<"-", "-">>, <<"x">>, <<"-">>, <<"-", "z">>, <<>>}
    \cup UNION {ShapesOf(specList[k]) \cup ShapeValues(specList[k]) :
                  k \in 1..Len(specList)}

InitScan == Constructed(ScanRegistries, 1)

\* process given tokens of the shapes above.
ProcessShapes == ProcessTokens(ScanVocabulary(m_specList), MaxScanArgs)

NextScan == ProcessShapes

SpecScan == InitScan /\ [][NextScan]_vars

\* ------------------------------------------------------------------------
\* The values of the environment
\* ------------------------------------------------------------------------

\* Longest list of tokens handed to process after the program name in the
\* specification of the environment.
MaxEnvArgs == 2

\* The registries of the specification of the environment: every kind of
\* option with an environment variable, with and without default.
EnvRegistries ==
  { <<envVar(defStr(strSpec(nName, "n", descr, FALSE), <<"o", "n", "e">>),
             evStr)>>,
    <<envVar(strSpec(nName, "n", descr, TRUE), evStr), help>>,
    <<envVar(defStr(enumSpec(nMode, "m", descr, enumChoice, FALSE),
                    <<"b", "b", "b">>), evEnum), version>>,
    <<envVar(defInt(intSpec(nCount, "c", descr, FALSE), 7), evInt),
      envVar(defReal(realSpec(nRate, "r", descr, FALSE), Real(1, 50)),
             evReal)>>,
    <<envVar(flagSpec(nFlag, "f", descr, FALSE), evFlag),
      envVar(intSpec(nCount, "c", descr, TRUE), evInt)>> }

\* The values an environment variable of the spec is set to.
EnvTexts(spec) ==
  CASE spec.m_kind = "kFlag" ->
         {<<"1">>, <<"Y">>, <<"Y", "E", "S">>, <<"y">>, <<"y", "e", "s">>,
          <<"t", "r", "u", "e">>, <<"0">>, <<>>}
    [] spec.m_kind = "kStr" -> {<<>>, <<"x">>}
    [] spec.m_kind = "kEnum" -> {<<"c", "c", "c">>, <<"C", "c", "c">>}
    [] spec.m_kind = "kInt" -> {<<"2">>, <<"2", "x">>}
    [] spec.m_kind = "kReal" -> {<<"2", ".", "5">>, <<"x">>}

EnvEnvironments(specList) == EnvironmentsOf(specList, EnvTexts)

InitEnv == ConstructedIn(EnvRegistries, 1, EnvEnvironments)

\* process in one of the environments above.
ProcessEnv == ProcessTokens(Vocabulary(m_specList), MaxEnvArgs)

NextEnv == ProcessEnv

SpecEnv == InitEnv /\ [][NextEnv]_vars

\* ------------------------------------------------------------------------
\* The copies of the table and of the parameters
\* ------------------------------------------------------------------------

\* Longest list of tokens handed to process after the program name in the
\* specification of the copies.
MaxShareArgs == 1

\* The registries of the specification of the copies.
ShareRegistries ==
  { <<flagSpec(nFlag, "f", descr, FALSE), strSpec(nName, "n", descr, FALSE)>>,
    <<envVar(intSpec(nCount, "c", descr, FALSE), evInt), help>> }

\* The tokens of the argument vectors: the short forms of the options and
\* a plain word.
ShareTokens(specList) ==
  {<<"x">>}
    \cup {<<"-", specList[k].m_shortName>> : k \in 1..Len(specList)}

\* The highest address of an object, 0 when there is none.
Top(h) ==
  IF DOMAIN h = {} THEN 0
  ELSE CHOOSE a \in DOMAIN h : \A b \in DOMAIN h : b <= a

\* The position of the first spec with the long name.
PositionOf(specList, longName) ==
  CHOOSE k \in 1..Len(specList) :
    /\ specList[k].m_longName = longName
    /\ \A j \in 1..(k - 1) : specList[j].m_longName # longName

\* The record that the table held for the name before the call taken
\* again for the k-th spec.
NewAddress_Reuse(old, base, longName, k) ==
  IF longName \in DOMAIN old THEN old[longName] ELSE base + k

\* new ProxyValue (value) for the k-th spec of the list: the address of an
\* object that did not exist; old are the pointers of the table before the
\* call and base is the highest address in use.
NewAddress(old, base, longName, k) == base + k

\* m_optionValues.theMap after the call: a pointer for each name that the
\* first loop has set; table holds the records by name as the call left
\* them.
Pointed(specList, old, base, table) ==
  [n \in DOMAIN table |->
     NewAddress(old, base, n, PositionOf(specList, n))]

\* The objects after the call: an object a pointer of the table leads to
\* holds the record the call left for the name, every other object is as
\* it was.
Allocated(h, ptrs, table) ==
  [a \in DOMAIN h \cup {ptrs[n] : n \in DOMAIN ptrs} |->
     IF \E n \in DOMAIN ptrs : ptrs[n] = a
     THEN table[CHOOSE n \in DOMAIN ptrs : ptrs[n] = a]
     ELSE h[a]]

\* The records that the pointers of a map lead to, by name.
Deref(h, ptrs) == [n \in DOMAIN ptrs |-> h[ptrs[n]]]

InitShare == Constructed(ShareRegistries, MaxCalls)

\* process with the objects it makes: every record of the table is made
\* by new ProxyValue and reached by the pointer set for its name.
ProcessShared ==
  /\ ProcessCall(ShareTokens(m_specList), MaxShareArgs)
  /\ pointers' = Pointed(m_specList, pointers, Top(heap), m_optionValues')
  /\ heap' = Allocated(heap, pointers', m_optionValues')
  /\ UNCHANGED snapshot

\* The variables that the calls on the copies leave alone.
notShareVars ==
  <<m_specList, m_specListOkay, m_errorMessage, m_optionValues, m_parameters,
    environ, arguments, skipProgramName, result, exit, seen, latchAt,
    callsLeft, earlier, specVars>>

\* const Parsley::OptionValues options = parser.options (): a copy of the
\* map, which holds the pointers of the table.
Options ==
  /\ exit # "none"
  /\ ~snapshot.optionsTaken
  /\ snapshot' =
       [snapshot EXCEPT
          !.optionsTaken = TRUE,
          !.theMap = pointers,
          !.values = [n \in DOMAIN pointers
                        |-> Lookup(Deref(heap, pointers), n)],
          !.optionsAt = callsLeft]
  /\ UNCHANGED <<heap, pointers, option, item, notShareVars>>

\* const Parsley::Arguments parameters = parser.parameters (): a copy of
\* the vector of strings.
Parameters ==
  /\ exit # "none"
  /\ ~snapshot.paramsTaken
  /\ snapshot' =
       [snapshot EXCEPT
          !.paramsTaken = TRUE,
          !.params = m_parameters,
          !.paramsAt = callsLeft]
  /\ UNCHANGED <<heap, pointers, option, item, notShareVars>>

\* Parsley::OptionValue item = options [name], on the copy of the table.
CopyLookup ==
  /\ snapshot.optionsTaken
  /\ callsLeft = 0
  /\ option = <<>>
  /\ \E n \in LookupNames :
       /\ option' = n
       /\ item' = Lookup(Deref(heap, snapshot.theMap), n)
  /\ UNCHANGED <<shareVars, notShareVars>>

\* item.isDefined = ...; item.str = "changed": the caller writes to the
\* OptionValue it got.
ModifyItem ==
  /\ option # <<>>
  /\ item = Lookup(Deref(heap, snapshot.theMap), option)
  /\ item' = [item EXCEPT !.isDefined = ~item.isDefined,
                          !.flag = ~item.flag,
                          !.str = <<"c", "h", "a", "n", "g", "e", "d">>]
  /\ UNCHANGED <<option, shareVars, notShareVars>>

NextShare ==
  ProcessShared \/ Options \/ Parameters \/ CopyLookup \/ ModifyItem

SpecShare == InitShare /\ [][NextShare]_vars

\* ------------------------------------------------------------------------
\* Properties
\* ------------------------------------------------------------------------

\* The option's environment variable is set.
EnvSet(spec) == spec.m_evIsDefined /\ getenv(environ, spec.m_evName) # Unset

\* The value of the option's environment variable is one process takes.
EnvValid(spec) ==
  CASE spec.m_kind = "kEnum" ->
         \E i \in 1..Len(spec.m_enumOptions) :
           spec.m_enumOptions[i] = getenv(environ, spec.m_evName)
    [] spec.m_kind = "kInt" -> Determined(str2int(getenv(environ, spec.m_evName), 0)).ok
    [] spec.m_kind = "kReal" ->
         Determined(str2real(getenv(environ, spec.m_evName), Real(0, 0))).ok
    [] OTHER -> TRUE

\* options()[longName] is defined and holds the default of the spec.
HoldsDefault(spec) ==
  LET v == Lookup(m_optionValues, spec.m_longName)
  IN  /\ v.isDefined
      /\ CASE spec.m_kind = "kStr" -> v.str = spec.m_defaultStr
           [] spec.m_kind = "kEnum" ->
                /\ v.str = spec.m_defaultStr
                /\ v.ival + 1 \in 1..Len(spec.m_enumOptions)
                /\ spec.m_enumOptions[v.ival + 1] = spec.m_defaultStr
                /\ \A j \in 1..v.ival :
                     spec.m_enumOptions[j] # spec.m_defaultStr
           [] spec.m_kind = "kInt" -> v.ival = spec.m_defaultInt
           [] spec.m_kind = "kReal" -> v.real = spec.m_defaultReal
           [] OTHER -> FALSE

\* process was called on a valid registry with the program name only.
OnlyProgramName ==
  /\ exit # "none"
  /\ m_specListOkay
  /\ skipProgramName
  /\ arguments = <<progName>>

\* The spec has a default and no value from the environment.
DefaultApplies(spec) ==
  /\ spec.m_kind \in {"kStr", "kEnum", "kInt", "kReal"}
  /\ spec.m_defaultIsDefined
  /\ ~EnvSet(spec)

\* C1, as stated: with only the program name and no environment variable
\* for the option, process returns true and the option with a default is
\* defined and holds that default.
C1_DefaultAlwaysSucceeds ==
  OnlyProgramName =>
    \A k \in 1..Len(m_specList) :
      DefaultApplies(m_specList[k]) =>
        result = TRUE /\ HoldsDefault(m_specList[k])

\* C1, amended: with only the program name and no environment variable for
\* the option, process returns true exactly when no spec of the registry
\* has an invalid environment value and every required spec has a default
\* or a set environment variable; and whenever it returns true the option
\* with a default is defined and holds that default.
C1_DefaultUnlessOtherFails ==
  OnlyProgramName =>
    \A k \in 1..Len(m_specList) :
      DefaultApplies(m_specList[k]) =>
        /\ result =
             (\A j \in 1..Len(m_specList) :
                LET other == m_specList[j]
                IN  /\ EnvSet(other) => EnvValid(other)
                    /\ other.m_isRequired =>
                         other.m_defaultIsDefined \/ EnvSet(other))
        /\ result = TRUE => HoldsDefault(m_specList[k])

\* C1 witness: a call with only the program name returned true and left
\* an enumeration option at its default, the second literal of its list.
C1_Witness ==
  /\ OnlyProgramName
  /\ result = TRUE
  /\ \E k \in 1..Len(m_specList) :
       /\ m_specList[k].m_kind = "kEnum"
       /\ DefaultApplies(m_specList[k])
       /\ Lookup(m_optionValues, m_specList[k].m_longName).ival = 1

\* The name of an option as the messages show it: "-c, --long", or
\* "--long" when the option has no short name.
NameText(spec) ==
  IF spec.m_shortName # NUL
  THEN "-" \o spec.m_shortName \o ", --" \o Str(spec.m_longName)
  ELSE "--" \o Str(spec.m_longName)

\* The items of a list separated by ", ".
RECURSIVE ListText(_)
ListText(l) ==
  IF l = <<>> THEN ""
  ELSE IF Len(l) = 1 THEN Str(l[1])
  ELSE Str(l[1]) \o ", " \o ListText(Tail(l))

\* C2: an integer option with a range given on the command line with a
\* token that parses to v: when v is below min or above max process returns
\* false and the message names the option, v and the range as "min to max";
\* when min <= v <= max the range check does not fail and the option ends
\* defined with ival = v.
C2_IntRangeOnCommandLine ==
  \A i \in 1..Len(seen) :
    \A spec \in {FindLong(m_specList, seen[i].option)} :
      \A r \in str2int(seen[i].arg, 0) :
        (spec.m_kind = "kInt" /\ spec.m_rangeIsDefined /\ r.ok) =>
          IF r.value < spec.m_minIntValue \/ r.value > spec.m_maxIntValue
          THEN /\ result = FALSE
               /\ m_errorMessage =
                    "invalid value for " \o NameText(spec) \o " : "
                      \o Str(int2str(r.value)) \o " is out of range "
                      \o Str(int2str(spec.m_minIntValue)) \o " to "
                      \o Str(int2str(spec.m_maxIntValue)) \o "."
          ELSE /\ exit # "range"
               /\ Lookup(m_optionValues, spec.m_longName).isDefined
               /\ Lookup(m_optionValues, spec.m_longName).ival = r.value

\* C2 witness: the option --count with the range 1 to 2 was given the
\* value 3 and process returned false with the out-of-range message.
C2_Witness ==
  /\ result = FALSE
  /\ Len(seen) = 1
  /\ seen[1].arg = <<"3">>
  /\ m_errorMessage
       = "invalid value for -c, --count : 3 is out of range 1 to 2."

\* C3, as stated: whenever process returns true, every integer option with
\* a range that is defined holds a value within the range, whether the
\* value comes from the default, the environment or the command line.
C3_RangeHoldsOnSuccess ==
  (exit # "none" /\ result = TRUE) =>
    \A k \in 1..Len(m_specList) :
      \A v \in {Lookup(m_optionValues, m_specList[k].m_longName)} :
        (/\ m_specList[k].m_kind = "kInt"
         /\ m_specList[k].m_rangeIsDefined
         /\ v.isDefined) =>
          /\ m_specList[k].m_minIntValue <= v.ival
          /\ v.ival <= m_specList[k].m_maxIntValue

\* C4: an enumeration option given on the command line with the token t:
\* when t equals one of the literals (case-sensitive) the option ends
\* defined with str = t and ival the zero-based index of the first literal
\* equal to t; otherwise process returns false and the message holds the
\* allowed set in declaration order as "(l1, l2, ..., ln)".
C4_EnumOnCommandLine ==
  \A i \in 1..Len(seen) :
    \A spec \in {FindLong(m_specList, seen[i].option)} :
      spec.m_kind = "kEnum" =>
        IF \E j \in 1..Len(spec.m_enumOptions) :
             spec.m_enumOptions[j] = seen[i].arg
        THEN \A v \in {Lookup(m_optionValues, spec.m_longName)} :
               /\ v.isDefined
               /\ v.str = seen[i].arg
               /\ v.ival \in 0..(Len(spec.m_enumOptions) - 1)
               /\ spec.m_enumOptions[v.ival + 1] = seen[i].arg
               /\ \A j \in 1..v.ival : spec.m_enumOptions[j] # seen[i].arg
        ELSE /\ result = FALSE
             /\ m_errorMessage =
                  "invalid value for " \o NameText(spec) \o " : "
                    \o Str(seen[i].arg) \o " is not one of ("
                    \o ListText(spec.m_enumOptions) \o ")"

\* C4 witness: --mode was given Bbb, which differs from the literal bbb in
\* case only, and process returned false with the allowed set.
C4_Witness ==
  /\ result = FALSE
  /\ Len(seen) = 1
  /\ seen[1].arg = <<"B", "b", "b">>
  /\ m_errorMessage
       = "invalid value for -m, --mode : Bbb is not one of (aaa, bbb, ccc)"

\* Two specs at different positions have equal long names, or equal short
\* names that are not the 'none' character.
NameConflict(specList) ==
  \E i \in 1..Len(specList) : \E j \in 1..Len(specList) :
    /\ i # j
    /\ \/ specList[i].m_longName = specList[j].m_longName
       \/ /\ specList[i].m_shortName = specList[j].m_shortName
          /\ specList[i].m_shortName # NUL

\* C5: a registry with a name conflict is invalid for its whole lifetime:
\* after every process call, whatever the arguments, the environment and
\* the earlier calls, the result is false, the message is "option
\* specification errors" and the parameters and the value table are empty;
\* a registry without conflict never gives that message.
C5_ConflictInvalidates ==
  exit # "none" =>
    IF NameConflict(m_specList)
    THEN /\ result = FALSE
         /\ m_errorMessage = "option specification errors"
         /\ m_parameters = <<>>
         /\ DOMAIN m_optionValues = {}
    ELSE m_errorMessage # "option specification errors"

\* C5 witness: two specs with different long names share the short name;
\* the second call of process on the registry, given a token, failed with
\* the message.
C5_Witness ==
  /\ Len(m_specList) = 2
  /\ m_specList[1].m_longName # m_specList[2].m_longName
  /\ m_specList[1].m_shortName = m_specList[2].m_shortName
  /\ callsLeft = 0
  /\ Len(arguments) = 2
  /\ result = FALSE
  /\ m_errorMessage = "option specification errors"

\* The position of the first token that process scans.
FirstToken == IF skipProgramName THEN 2 ELSE 1

\* process went past the check of the spec list and the first loop.
ScanStarted == exit \notin {"none", "specs", "environment"}

\* The two forms of the option of a spec on the command line.
OptionTokens(spec) ==
  {<<"-", "-">> \o spec.m_longName}
    \cup (IF spec.m_shortName = NUL THEN {} ELSE {<<"-", spec.m_shortName>>})

\* C6: when the token scan recognizes a singleton option, process returns
\* true at once, without the requiredness check: the singleton is the last
\* option recognized; and a singleton as the first token scanned gives
\* true whatever the required options hold.
C6_SingletonShortCircuit ==
  /\ (\E i \in 1..Len(seen) :
        FindLong(m_specList, seen[i].option).m_isSingleton) =>
       /\ result = TRUE
       /\ m_errorMessage = ""
       /\ FindLong(m_specList, seen[Len(seen)].option).m_isSingleton
       /\ \A i \in 1..(Len(seen) - 1) :
            ~FindLong(m_specList, seen[i].option).m_isSingleton
  /\ (/\ ScanStarted
      /\ Len(arguments) >= FirstToken
      /\ \E k \in 1..Len(m_specList) :
           /\ m_specList[k].m_isSingleton
           /\ arguments[FirstToken] \in OptionTokens(m_specList[k])) =>
       result = TRUE

\* C6 witness: process returned true after a singleton flag that is not
\* help or version, while a required option of the registry has no value.
C6_Witness ==
  /\ result = TRUE
  /\ Len(seen) = 1
  /\ seen[1].option = nFlag
  /\ \E k \in 1..Len(m_specList) :
       /\ m_specList[k].m_isRequired
       /\ ~m_optionValues[m_specList[k].m_longName].isDefined

\* The spec is required and the value table holds no defined value for it.
RequiredUnmet(spec) ==
  spec.m_isRequired /\ ~m_optionValues[spec.m_longName].isDefined

\* The message of the requiredness check for the spec.
RequiredText(spec) == "a value is required for: " \o NameText(spec)

\* C7: when the first two loops of process end without error and without
\* a singleton return, process returns false exactly when some required
\* spec has no defined value, and then the message is "a value is required
\* for: <name>" for such a spec; a required option with a default or a set
\* environment variable is never the one named, and a required string
\* option with neither, on a call with only the program name, always makes
\* process return false.
C7_RequirednessCheck ==
  exit \in {"end", "required"} =>
    /\ (result = FALSE)
         = (\E k \in 1..Len(m_specList) : RequiredUnmet(m_specList[k]))
    /\ result = FALSE =>
         \E k \in 1..Len(m_specList) :
           /\ RequiredUnmet(m_specList[k])
           /\ m_errorMessage = RequiredText(m_specList[k])
    /\ result = TRUE => m_errorMessage = ""
    /\ \A k \in 1..Len(m_specList) :
         (/\ m_specList[k].m_isRequired
          /\ m_specList[k].m_defaultIsDefined \/ EnvSet(m_specList[k])) =>
           m_errorMessage # RequiredText(m_specList[k])
    /\ (/\ OnlyProgramName
        /\ \E k \in 1..Len(m_specList) :
             /\ m_specList[k].m_kind = "kStr"
             /\ m_specList[k].m_isRequired
             /\ ~m_specList[k].m_defaultIsDefined
             /\ ~EnvSet(m_specList[k])) =>
         result = FALSE /\ exit = "required"

\* C7 witness: of two required options the first was given on the command
\* line and the second was not, and process returned false naming the
\* second.
C7_Witness ==
  /\ result = FALSE
  /\ Len(seen) = 1
  /\ seen[1].option = nName
  /\ m_errorMessage = "a value is required for: -c, --count"

\* The token is empty or does not start with '-'.
IsPlain(token) == Len(token) = 0 \/ token[1] # "-"

\* The tokens of the argument vector from position p on.
Suffix(p) == SubSeq(arguments, p, Len(arguments))

\* The value table as the first loop of process makes it.
SeedTable == PhaseA(m_specList, environ, 1, EmptyMap).theMap

\* C8: once the token "--" is met in option position, it is not added to
\* the parameters and every later token is a parameter, unchanged and in
\* order: no option is recognized after it and the scan gives no error;
\* when "--" is the first token scanned, the parameters are the rest of
\* the argument vector and the value table is the one of the first loop.
C8_NullOptionEndsOptions ==
  /\ (latchAt > 0 /\ arguments[latchAt] = <<"-", "-">>) =>
       /\ m_parameters = Suffix(latchAt + 1)
       /\ \A i \in 1..Len(seen) : seen[i].at < latchAt
       /\ exit \in {"end", "required"}
  /\ (/\ ScanStarted
      /\ Len(arguments) >= FirstToken
      /\ arguments[FirstToken] = <<"-", "-">>) =>
       /\ m_parameters = Suffix(FirstToken + 1)
       /\ seen = <<>>
       /\ exit \in {"end", "required"}
       /\ m_optionValues = SeedTable

\* C8 witness: after "--" the long form of an option of the registry and
\* a second "--" are the two parameters of a call that returned true.
C8_Witness ==
  /\ result = TRUE
  /\ latchAt > 0
  /\ arguments[latchAt] = <<"-", "-">>
  /\ Len(m_parameters) = 2
  /\ \E k \in 1..Len(m_specList) :
       m_parameters[1] = <<"-", "-">> \o m_specList[k].m_longName
  /\ m_parameters[2] = <<"-", "-">>

\* C9: the first token in option position that is empty or does not start
\* with '-' is a parameter and so is every token after it, in order: no
\* option is recognized from it on and the scan gives no error.  After a
\* successful call without singleton return the parameters are the
\* arguments from that token on (after the first "--"), and none when the
\* arguments hold neither.
C9_FirstParameterEndsOptions ==
  /\ (latchAt > 0 /\ IsPlain(arguments[latchAt])) =>
       /\ m_parameters = Suffix(latchAt)
       /\ \A i \in 1..Len(seen) : seen[i].at < latchAt
       /\ exit \in {"end", "required"}
  /\ (/\ ScanStarted
      /\ Len(arguments) >= FirstToken
      /\ IsPlain(arguments[FirstToken])) =>
       /\ m_parameters = Suffix(FirstToken)
       /\ seen = <<>>
       /\ exit \in {"end", "required"}
       /\ m_optionValues = SeedTable
  /\ (result = TRUE /\ exit = "end") =>
       /\ m_parameters =
            IF latchAt = 0 THEN <<>>
            ELSE IF IsPlain(arguments[latchAt]) THEN Suffix(latchAt)
            ELSE Suffix(latchAt + 1)
       /\ (\A p \in FirstToken..Len(arguments) :
             ~IsPlain(arguments[p]) /\ arguments[p] # <<"-", "-">>) =>
            m_parameters = <<>>

\* C9 witness: the empty token came first, and "--" and the long form of
\* an option of the registry after it are parameters of a call that
\* returned true.
C9_Witness ==
  /\ result = TRUE
  /\ latchAt > 0
  /\ arguments[latchAt] = <<>>
  /\ Len(m_parameters) = 3
  /\ m_parameters[2] = <<"-", "-">>
  /\ \E k \in 1..Len(m_specList) :
       m_parameters[3] = <<"-", "-">> \o m_specList[k].m_longName

\* C10: after process returned true, the lookup of a name that is not the
\* long name of a spec gives the default record (not defined, flag false,
\* empty string, 0 and 0.0) and the value table has no entry for the name.
C10_UnknownNameLookup ==
  (/\ result = TRUE
   /\ option # <<>>
   /\ \A k \in 1..Len(m_specList) : m_specList[k].m_longName # option) =>
    /\ item = [isDefined |-> FALSE, flag |-> FALSE, str |-> <<>>,
               ival |-> 0, real |-> Real(0, 0)]
    /\ option \notin DOMAIN m_optionValues

\* C10 witness: a name was looked up in the table of the empty registry
\* after a call with a parameter that returned true.
C10_Witness ==
  /\ m_specList = <<>>
  /\ result = TRUE
  /\ Len(m_parameters) = 1
  /\ option = <<"m", "i", "s", "t", "a", "k", "e">>
  /\ ~item.isDefined

\* The outcomes of the last call's arguments on a registry of the same
\* spec list and environment on which no call was made before.
FreshOutcomes ==
  process(m_specList, m_specListOkay, environ, arguments, skipProgramName,
          "", EmptyMap, <<>>)

\* The members and the result are those of the outcome o.
SameOutcome(o) ==
  /\ o.ret = result
  /\ o.err = m_errorMessage
  /\ o.theMap = m_optionValues
  /\ o.params = m_parameters

\* C11, as stated: the result, the message, the value table and the
\* parameters of a call on a valid registry are a function of the spec
\* list, the environment and the arguments: every outcome these can give
\* is the one the call had.
C11_OutcomeIsFunction ==
  (exit # "none" /\ m_specListOkay) =>
    \A o \in FreshOutcomes : SameOutcome(o)

\* C11, amended: whatever calls were made before, the call has an outcome
\* of the same arguments on a fresh registry; the result, the value table
\* and the parameters are determined by the spec list, the environment and
\* the arguments, and so is the message unless two or more required
\* options are without value, when it names any one of them.  A duplicate
\* error names an option recognized earlier in the same arguments, and the
\* parameters are tokens of the call's arguments.
C11_OutcomeOfFreshCall ==
  (exit # "none" /\ m_specListOkay) =>
    /\ \E o \in FreshOutcomes : SameOutcome(o)
    /\ \A o \in FreshOutcomes :
         /\ o.ret = result
         /\ o.theMap = m_optionValues
         /\ o.params = m_parameters
         /\ o.err # m_errorMessage =>
              /\ exit = "required"
              /\ \E j, k \in 1..Len(m_specList) :
                   /\ j # k
                   /\ RequiredUnmet(m_specList[j])
                   /\ RequiredUnmet(m_specList[k])
    /\ exit = "duplicate" =>
         \E i \in 1..Len(seen) :
           /\ m_errorMessage =
                "duplicate option: "
                  \o NameText(FindLong(m_specList, seen[i].option))
           /\ \E p \in (seen[i].at + 1)..Len(arguments) :
                arguments[p]
                  \in OptionTokens(FindLong(m_specList, seen[i].option))
    /\ \E p \in 1..(Len(arguments) + 1) : m_parameters = Suffix(p)

\* C11 witness: the flag recognized by the call before was recognized
\* again by the last call, which did not end with a duplicate error.
C11_Witness ==
  /\ m_specListOkay
  /\ earlier.made
  /\ nFlag \in earlier.options
  /\ Len(seen) = 1
  /\ seen[1].option = nFlag
  /\ exit = "required"

\* No option was recognized at the position p or after it.
StoppedAt(p) == \A i \in 1..Len(seen) : seen[i].at < p

DefaultQualifiers == {"defStr", "defInt", "defReal"}
RangeQualifiers == {"intRange", "realRange"}

\* The i-th qualifier call of the chain was made on chain[i] and returned
\* chain[i + 1].
Calls == 1..Len(qualifiers)

\* C13: along a chain every qualifier call returns a spec; a default
\* qualifier called on a spec with a defined default, a range qualifier
\* called on a spec with a defined range and envVar called on a spec with a
\* non-empty variable name return a spec equal to the one they were called
\* on, so the first default, range and name stay.
C13_FirstQualifierStays ==
  /\ chain # <<>> => Len(chain) = Len(qualifiers) + 1
  /\ \A i \in Calls :
       /\ (/\ qualifiers[i].qualifier \in DefaultQualifiers
           /\ chain[i].m_defaultIsDefined) => chain[i + 1] = chain[i]
       /\ (/\ qualifiers[i].qualifier \in RangeQualifiers
           /\ chain[i].m_rangeIsDefined) => chain[i + 1] = chain[i]
       /\ (/\ qualifiers[i].qualifier = "envVar"
           /\ chain[i].m_evName # <<>>) => chain[i + 1] = chain[i]

\* C13 witness: intRange (1, 3) then intRange (5, 9) on an integer spec
\* left the range 1 to 3.
C13_Witness ==
  /\ Len(qualifiers) = 2
  /\ chain[1].m_kind = "kInt"
  /\ qualifiers[1].qualifier = "intRange"
  /\ qualifiers[1].min = 1
  /\ qualifiers[2].qualifier = "intRange"
  /\ qualifiers[2].min = 5
  /\ chain[3].m_rangeIsDefined
  /\ chain[3].m_minIntValue = 1
  /\ chain[3].m_maxIntValue = 3

\* The kinds a qualifier is for.
KindsOf(qualifier) ==
  CASE qualifier = "defStr" -> {"kStr", "kEnum"}
    [] qualifier \in {"defInt", "intRange"} -> {"kInt"}
    [] qualifier \in {"defReal", "realRange"} -> {"kReal"}
    [] qualifier = "envVar" -> Kinds

\* C14: a qualifier called on a spec of a kind it is not for returns a spec
\* equal to the one it was called on in every field, and so does defStr
\* called on an Enum spec with a value that is not one of its literals;
\* when a Parsley holding an Enum spec without default has processed no
\* token, with the spec's environment variable not set, the option is not
\* defined.
C14_MisfitQualifierDropped ==
  /\ \A i \in Calls :
       /\ chain[i].m_kind \notin KindsOf(qualifiers[i].qualifier)
            => chain[i + 1] = chain[i]
       /\ (/\ qualifiers[i].qualifier = "defStr"
           /\ chain[i].m_kind = "kEnum"
           /\ indexOf(chain[i].m_enumOptions, qualifiers[i].defValue) = -1)
            => chain[i + 1] = chain[i]
  /\ (/\ exit # "none"
      /\ m_specList[1].m_kind = "kEnum"
      /\ ~m_specList[1].m_defaultIsDefined) =>
       /\ result = TRUE
       /\ ~Lookup(m_optionValues, m_specList[1].m_longName).isDefined

\* C14 witness: defStr ("z") was called on the Enum spec, the Parsley holds
\* the spec it returned and process has returned.
C14_Witness ==
  /\ Len(qualifiers) = 1
  /\ qualifiers[1].qualifier = "defStr"
  /\ qualifiers[1].defValue = <<"z">>
  /\ chain[1].m_kind = "kEnum"
  /\ held = 2
  /\ exit # "none"
  /\ ~Lookup(m_optionValues, nMode).isDefined

\* The spec holds a default and a range, and the default is outside the
\* range.
DefaultOutside(spec) ==
  /\ spec.m_defaultIsDefined
  /\ spec.m_rangeIsDefined
  /\ \/ /\ spec.m_kind = "kInt"
        /\ \/ spec.m_defaultInt < spec.m_minIntValue
           \/ spec.m_defaultInt > spec.m_maxIntValue
     \/ /\ spec.m_kind = "kReal"
        /\ \/ RealLess(spec.m_defaultReal, spec.m_minRealValue)
           \/ RealLess(spec.m_maxRealValue, spec.m_defaultReal)

Differing(a, b) == {f \in DOMAIN a : a[f] # b[f]}

\* The fields a qualifier sets.
FieldsOf(qualifier) ==
  CASE qualifier = "defStr" -> {"m_defaultStr", "m_defaultIsDefined"}
    [] qualifier = "defInt" -> {"m_defaultInt", "m_defaultIsDefined"}
    [] qualifier = "defReal" -> {"m_defaultReal", "m_defaultIsDefined"}
    [] qualifier = "intRange" ->
         {"m_minIntValue", "m_maxIntValue", "m_rangeIsDefined"}
    [] qualifier = "realRange" ->
         {"m_minRealValue", "m_maxRealValue", "m_rangeIsDefined"}
    [] qualifier = "envVar" -> {"m_evName", "m_evIsDefined"}

\* What the qualifier call returns when it is made on the spec.
Returned(this, call) ==
  CASE call.qualifier = "defStr" -> defStr(this, call.defValue)
    [] call.qualifier = "defInt" -> defInt(this, call.defValue)
    [] call.qualifier = "defReal" -> defReal(this, call.defValue)
    [] call.qualifier = "intRange" -> intRange(this, call.min, call.max)
    [] call.qualifier = "realRange" -> realRange(this, call.min, call.max)
    [] call.qualifier = "envVar" -> envVar(this, call.defValue)

\* C16: the spec a qualifier call returns differs from the one the call
\* was made on in no field but those of the qualifier; every spec of a
\* chain stays what the factory or the qualifier call that made it
\* returned, whatever qualifier is called on it afterwards, and the spec a
\* Parsley holds stays the one it was constructed with.
C16_QualifierLeavesReceiver ==
  /\ \A i \in Calls :
       Differing(chain[i], chain[i + 1])
         \subseteq FieldsOf(qualifiers[i].qualifier)
  /\ chain # <<>> => chain[1] \in BaseSpecs
  /\ \A i \in Calls : chain[i + 1] = Returned(chain[i], qualifiers[i])
  /\ held # 0 => m_specList = <<chain[held]>>

\* C16 witness: a Parsley holds the integer spec, defInt (7) was called on
\* that spec afterwards and returned a spec with the default, and process
\* has found no value for the option.
C16_Witness ==
  /\ held = 1
  /\ Len(qualifiers) = 1
  /\ qualifiers[1].qualifier = "defInt"
  /\ qualifiers[1].defValue = 7
  /\ chain[2].m_defaultIsDefined
  /\ ~chain[1].m_defaultIsDefined
  /\ exit # "none"
  /\ ~Lookup(m_optionValues, nCount).isDefined

\* C17: str2int of the text int2str made of a number of intp_t returns
\* true and gives the number, the limits and the negative numbers
\* included; white space before and after a text changes neither the
\* result of str2int nor the value it gives.
C17_IntRoundTrip ==
  intResult.called =>
    /\ origin = "int2str" => intResult.ok /\ intResult.value = x
    /\ \E c \in str2int(plain, 0) :
         /\ intResult.ok = c.ok
         /\ c.ok => intResult.value = c.value

\* C17 witness: the text of the least number of intp_t, with white space
\* around it, was converted.
C17_Witness ==
  /\ origin = "int2str"
  /\ x = IntMin
  /\ text = <<"\t", " ">> \o plain \o <<"\n">>
  /\ intResult.called
  /\ intResult.value = IntMin

StartsWith(line, start) ==
  Len(line) >= Len(start) /\ SubSeq(line, 1, Len(start)) = start

\* The lines of the help text that start with the name column of the k-th
\* spec.
NameLinesOf(k) ==
  {p \in 1..Len(os) : StartsWith(os[p], name(m_specList[k]))}

\* The first of them.
NameLineOf(k) == CHOOSE p \in NameLinesOf(k) : \A q \in NameLinesOf(k) : p <= q

\* C19: once optionHelp has written the help text, it holds for every spec
\* of the registry, whatever its description, a line that starts with the
\* name column of the spec, and these lines follow the order of the spec
\* list.
C19_EveryOptionHasBlock ==
  os # <<>> =>
    /\ \A k \in 1..Len(m_specList) : NameLinesOf(k) # {}
    /\ \A k \in 1..(Len(m_specList) - 1) : NameLineOf(k) < NameLineOf(k + 1)

\* The number of tokens the recognized option took.
Consumed(e) ==
  IF FindLong(m_specList, e.option).m_kind = "kFlag" THEN 1 ELSE 2

\* The position of the token after the last recognized option and its
\* argument, the first token of the scan when no option was recognized.
NextAt ==
  IF seen = <<>> THEN FirstToken
  ELSE seen[Len(seen)].at + Consumed(seen[Len(seen)])

\* The token scan went on after the last option it recognized.
WentOn == ScanStarted /\ exit \notin {"singleton", "value", "range", "program"}

\* The long names of the options the token scan recognized.
SeenOptions == {seen[i].option : i \in 1..Len(seen)}

\* C20: the token scan recognizes no option twice.  When it goes on after
\* an option and the next token is the short or the long form of an option
\* it has recognized, a Flag included, process returns false with the
\* message "duplicate option: " and the name of the option.  It returns
\* with this message for no other token: the option named was recognized
\* before in the same scan, so a value from the default or from the
\* environment variable is no earlier occurrence.
C20_DuplicateOption ==
  /\ \A i \in 1..Len(seen) : \A j \in 1..Len(seen) :
       seen[i].option = seen[j].option => i = j
  /\ (/\ WentOn
      /\ seen # <<>>
      /\ NextAt <= Len(arguments)) =>
       \A k \in 1..Len(m_specList) :
         (/\ m_specList[k].m_longName \in SeenOptions
          /\ arguments[NextAt] \in OptionTokens(m_specList[k])) =>
           /\ exit = "duplicate"
           /\ result = FALSE
           /\ m_errorMessage
                = "duplicate option: " \o NameText(m_specList[k])
  /\ exit = "duplicate" =>
       /\ result = FALSE
       /\ NextAt <= Len(arguments)
       /\ \E k \in 1..Len(m_specList) :
            /\ m_errorMessage
                 = "duplicate option: " \o NameText(m_specList[k])
            /\ m_specList[k].m_longName \in SeenOptions
            /\ arguments[NextAt] \in OptionTokens(m_specList[k])

\* C20 witness: an option whose environment variable is set was given in
\* its short form with a value and then in its long form, and process
\* returned at the second occurrence.
C20_Witness ==
  /\ exit = "duplicate"
  /\ Len(seen) = 1
  /\ EnvSet(FindLong(m_specList, seen[1].option))
  /\ Len(arguments[seen[1].at]) = 2
  /\ Len(arguments[NextAt]) > 2

\* The token has the short form: two characters, '-' first, and is not "--".
ShortShape(t) == Len(t) = 2 /\ t[1] = "-" /\ t # <<"-", "-">>

\* The token has the long form: "--" and at least one character more.
LongShape(t) == Len(t) >= 3 /\ t[1] = "-" /\ t[2] = "-"

\* The first spec of the registry with the short name c has the long name
\* longName.
FirstWithShort(c, longName) ==
  \E k \in 1..Len(m_specList) :
    /\ m_specList[k].m_shortName = c
    /\ m_specList[k].m_longName = longName
    /\ \A j \in 1..(k - 1) : m_specList[j].m_shortName # c

\* The token scan met the token at NextAt in option position and it is no
\* "--" and no parameter: the scan ended at it.
EndedAtOption ==
  /\ WentOn
  /\ latchAt = 0
  /\ NextAt <= Len(arguments)

\* C21: a token in option position is classified by its shape alone.  An
\* option is recognized only from a token of two characters whose second
\* is its short name, or from "--" followed by exactly its long name.  A
\* token of one of the two shapes that names no spec gives "no such option:
\* <token>", also when it starts like a long name or holds "=value" after
\* it; every other token starting with '-' ("-" alone, or three and more
\* characters not starting with "--") gives "invalid option format:
\* <token>".
C21_TokenShape ==
  /\ \A i \in 1..Len(seen) :
       \A t \in {arguments[seen[i].at]} :
         \/ ShortShape(t) /\ FirstWithShort(t[2], seen[i].option)
         \/ LongShape(t) /\ SubSeq(t, 3, Len(t)) = seen[i].option
  /\ EndedAtOption =>
       \A t \in {arguments[NextAt]} :
         /\ t # <<>> /\ t[1] = "-" /\ t # <<"-", "-">>
         /\ IF ShortShape(t)
            THEN IF \E k \in 1..Len(m_specList) :
                      m_specList[k].m_shortName = t[2]
                 THEN exit \in {"duplicate", "noarg"}
                 ELSE /\ exit = "nosuch"
                      /\ result = FALSE
                      /\ m_errorMessage = "no such option: " \o Str(t)
            ELSE IF LongShape(t)
            THEN IF \E k \in 1..Len(m_specList) :
                      m_specList[k].m_longName = SubSeq(t, 3, Len(t))
                 THEN exit \in {"duplicate", "noarg"}
                 ELSE /\ exit = "nosuch"
                      /\ result = FALSE
                      /\ m_errorMessage = "no such option: " \o Str(t)
            ELSE /\ exit = "format"
                 /\ result = FALSE
                 /\ m_errorMessage = "invalid option format: " \o Str(t)
  /\ exit \in {"nosuch", "format"} => EndedAtOption

\* C21 witness: after the option --name and its value, the token --nam,
\* the start of the long name, was refused as no option.
C21_Witness ==
  /\ Len(seen) = 1
  /\ seen[1].option = nName
  /\ Len(arguments[seen[1].at]) > 2
  /\ EndedAtOption
  /\ m_errorMessage = "no such option: --nam"

\* The spec of the i-th option the token scan recognized.
SeenSpec(i) == FindLong(m_specList, seen[i].option)

\* C22: a String, Enum, Integer or Real option in option position takes
\* exactly the next token as its value, as it is and whatever it looks
\* like: the token does not set the latch, is no parameter and is not
\* looked up as an option, and the scan resumes at the token after it; a
\* String option ends with that token as its str.  When the option token is
\* the last token, process returns false with "option <name> requires an
\* argument.".
C22_ValueTokenVerbatim ==
  /\ \A i \in 1..Len(seen) :
       SeenSpec(i).m_kind # "kFlag" =>
         /\ seen[i].at + 1 <= Len(arguments)
         /\ seen[i].arg = arguments[seen[i].at + 1]
         /\ latchAt = 0 \/ latchAt > seen[i].at + 1
         /\ Len(m_parameters) <= Len(arguments) - (seen[i].at + 1)
         /\ \A j \in 1..Len(seen) : seen[j].at # seen[i].at + 1
         /\ i < Len(seen) => seen[i + 1].at = seen[i].at + 2
         /\ SeenSpec(i).m_kind = "kStr" =>
              \A v \in {Lookup(m_optionValues, seen[i].option)} :
                v.isDefined /\ v.str = arguments[seen[i].at + 1]
         /\ (i = Len(seen) /\ WentOn /\ seen[i].at + 2 <= Len(arguments)) =>
              \/ latchAt = seen[i].at + 2
              \/ /\ exit \in {"format", "nosuch", "duplicate", "noarg"}
                 /\ latchAt = 0
  /\ EndedAtOption =>
       \A k \in 1..Len(m_specList) :
         (/\ m_specList[k].m_kind # "kFlag"
          /\ m_specList[k].m_longName \notin SeenOptions
          /\ arguments[NextAt] \in OptionTokens(m_specList[k])) =>
           /\ NextAt = Len(arguments)
           /\ exit = "noarg"
           /\ result = FALSE
           /\ m_errorMessage = "option " \o NameText(m_specList[k])
                                 \o " requires an argument."
  /\ exit = "noarg" =>
       /\ EndedAtOption
       /\ NextAt = Len(arguments)
       /\ \E k \in 1..Len(m_specList) :
            /\ m_specList[k].m_kind # "kFlag"
            /\ arguments[NextAt] \in OptionTokens(m_specList[k])

\* C22 witness: the String option --name took the token --help, the long
\* form of another option of the registry, as its value: process returned
\* true at the end of the arguments, with no parameter and help not set.
C22_Witness ==
  /\ result = TRUE
  /\ exit = "end"
  /\ Len(seen) = 1
  /\ seen[1].option = nName
  /\ Lookup(m_optionValues, nName).str = <<"-", "-", "h", "e", "l", "p">>
  /\ ~Lookup(m_optionValues, <<"h", "e", "l", "p">>).flag
  /\ m_parameters = <<>>

\* C23: a Flag option the token scan recognized ends defined with flag
\* true, and it takes no token: the token right after it is the next the
\* scan classifies, as an option, as "--" or as the first parameter.  With
\* the help spec in the registry and the arguments "prog", "--help",
\* process returns true and options()["help"] is defined with flag true.
C23_FlagTakesNoToken ==
  /\ \A i \in 1..Len(seen) :
       SeenSpec(i).m_kind = "kFlag" =>
         /\ \A v \in {Lookup(m_optionValues, seen[i].option)} :
              v.isDefined /\ v.flag
         /\ i < Len(seen) => seen[i + 1].at = seen[i].at + 1
         /\ (i = Len(seen) /\ WentOn /\ seen[i].at + 1 <= Len(arguments)) =>
              \/ latchAt = seen[i].at + 1
              \/ /\ exit \in {"format", "nosuch", "duplicate", "noarg"}
                 /\ latchAt = 0
         /\ latchAt > 0 =>
              Len(m_parameters) >= Len(arguments) - latchAt
  /\ (/\ ScanStarted
      /\ \E k \in 1..Len(m_specList) : m_specList[k] = help
      /\ skipProgramName
      /\ arguments = <<progName, <<"-", "-", "h", "e", "l", "p">> >>) =>
       /\ result = TRUE
       /\ Lookup(m_optionValues, help.m_longName).isDefined
       /\ Lookup(m_optionValues, help.m_longName).flag

\* C23 witness: the flag -f was followed at once by --count and its value,
\* both options were recognized and process returned true.
C23_Witness ==
  /\ result = TRUE
  /\ Len(seen) = 2
  /\ seen[1].option = nFlag
  /\ arguments[seen[1].at] = <<"-", "f">>
  /\ seen[2].option = nCount
  /\ seen[2].at = seen[1].at + 1
  /\ Lookup(m_optionValues, nFlag).flag

\* The value token of the option of the spec in the last token scan.
SeenArg(spec) ==
  seen[CHOOSE i \in 1..Len(seen) : seen[i].option = spec.m_longName].arg

\* The record v holds the text txt as a value of the kind of the spec.
ValueIs(spec, v, txt) ==
  CASE spec.m_kind = "kStr" -> v.str = txt
    [] spec.m_kind = "kEnum" ->
         /\ v.str = txt
         /\ v.ival \in 0..(Len(spec.m_enumOptions) - 1)
         /\ spec.m_enumOptions[v.ival + 1] = txt
    [] spec.m_kind = "kInt" ->
         \A r \in str2int(txt, 0) : r.ok /\ v.ival = r.value
    [] spec.m_kind = "kReal" ->
         \A r \in str2real(txt, Real(0, 0)) : r.ok /\ v.real = r.value
    [] OTHER -> FALSE

\* C24: the value of a String, Enum, Integer or Real option is the one of
\* the command line when the option was given there; otherwise the value
\* of its environment variable when that is set, the empty string
\* included; otherwise its default; and with neither the option is not
\* defined.  A String option holds this from the end of the first loop on,
\* the other kinds whenever process returns true.
C24_Precedence ==
  \A k \in 1..Len(m_specList) :
    \A spec \in {m_specList[k]} :
      \A v \in {Lookup(m_optionValues, spec.m_longName)} :
        (/\ spec.m_kind # "kFlag"
         /\ \/ exit # "none" /\ result = TRUE
            \/ ScanStarted /\ spec.m_kind = "kStr") =>
          IF spec.m_longName \in SeenOptions
          THEN v.isDefined /\ ValueIs(spec, v, SeenArg(spec))
          ELSE IF EnvSet(spec)
          THEN v.isDefined
                 /\ ValueIs(spec, v, getenv(environ, spec.m_evName))
          ELSE IF spec.m_defaultIsDefined THEN HoldsDefault(spec)
          ELSE ~v.isDefined

\* C24 witness: a String option with the default "one" whose environment
\* variable is set to the empty string was not given on the command line,
\* and its value is the empty string.
C24_Witness ==
  /\ result = TRUE
  /\ exit = "end"
  /\ seen = <<>>
  /\ Len(m_specList) = 1
  /\ m_specList[1].m_kind = "kStr"
  /\ m_specList[1].m_defaultStr = <<"o", "n", "e">>
  /\ getenv(environ, evStr) = <<>>
  /\ Lookup(m_optionValues, nName).isDefined
  /\ Lookup(m_optionValues, nName).str = <<>>

\* The values of an environment variable that set a flag.
Truthy == {<<"1">>, <<"Y">>, <<"Y", "E", "S">>}

\* C25: a Flag option with an environment variable that was not given on
\* the command line has flag true exactly when the variable is set to "1",
\* "Y" or "YES"; any other value ("y", "yes", "true", "0", the empty
\* string) leaves it false and is no error: the first loop fails only for
\* the value of an option of another kind.  A flag the environment set
\* stays true whatever the command line holds.
C25_FlagFromEnvironment ==
  /\ ScanStarted =>
       \A k \in 1..Len(m_specList) :
         \A spec \in {m_specList[k]} :
           \A v \in {Lookup(m_optionValues, spec.m_longName)} :
             (spec.m_kind = "kFlag" /\ spec.m_evIsDefined) =>
               /\ spec.m_longName \notin SeenOptions =>
                    v.flag = (getenv(environ, spec.m_evName) \in Truthy)
               /\ getenv(environ, spec.m_evName) \in Truthy => v.flag
  /\ exit = "environment" =>
       \E k \in 1..Len(m_specList) :
         /\ m_specList[k].m_kind # "kFlag"
         /\ EnvSet(m_specList[k])
         /\ ~EnvValid(m_specList[k])

\* C25 witness: the variable of the flag is set to "yes", the flag was not
\* given, process returned true and the flag is false.
C25_Witness ==
  /\ result = TRUE
  /\ exit = "end"
  /\ getenv(environ, evFlag) = <<"y", "e", "s">>
  /\ nFlag \notin SeenOptions
  /\ Lookup(m_optionValues, nFlag).isDefined
  /\ ~Lookup(m_optionValues, nFlag).flag

\* The positions of the specs whose environment variable is set to a value
\* the first loop refuses.
BadEnv ==
  {k \in 1..Len(m_specList) :
     /\ m_specList[k].m_kind \in {"kEnum", "kInt", "kReal"}
     /\ EnvSet(m_specList[k])
     /\ ~EnvValid(m_specList[k])}

\* The message of the first loop for the environment value of the spec.
BadEnvText(spec) ==
  "invalid environment variable " \o Str(spec.m_evName) \o " value for "
    \o NameText(spec) \o " : "
    \o (CASE spec.m_kind = "kEnum" ->
               Str(getenv(environ, spec.m_evName)) \o " is not one of ("
                 \o ListText(spec.m_enumOptions) \o ")"
           [] spec.m_kind = "kInt" ->
               "'" \o Str(getenv(environ, spec.m_evName))
                 \o "' is not a valid integer."
           [] spec.m_kind = "kReal" ->
               "'" \o Str(getenv(environ, spec.m_evName))
                 \o "' is not a valid floating point number.")

\* C26: when the environment variable of an Enum option holds no literal
\* of it, or that of an Integer or Real option no number of that kind,
\* process on a valid registry returns false whatever the arguments are,
\* before it reads a token: no option is recognized, the parameters are
\* empty, and the message names the variable and the value of the first
\* such spec in declaration order.  process fails in the first loop for no
\* other environment.
C26_InvalidEnvironmentFails ==
  (exit # "none" /\ m_specListOkay) =>
    IF BadEnv # {}
    THEN /\ result = FALSE
         /\ exit = "environment"
         /\ seen = <<>>
         /\ latchAt = 0
         /\ m_parameters = <<>>
         /\ \E k \in BadEnv :
              /\ \A j \in BadEnv : k <= j
              /\ m_errorMessage = BadEnvText(m_specList[k])
    ELSE exit # "environment"

\* C26 witness: the variables of both options hold no number, the
\* arguments give the first option the valid value 2, and process returned
\* false with the message about the variable of the first option.
C26_Witness ==
  /\ result = FALSE
  /\ getenv(environ, evInt) = <<"2", "x">>
  /\ getenv(environ, evReal) = <<"x">>
  /\ Len(arguments) = 3
  /\ arguments[2] = <<"-", "c">>
  /\ arguments[3] = <<"2">>
  /\ m_errorMessage
       = "invalid environment variable P_INT value for -c, --count : '2x' is not a valid integer."

\* C27: after a call of process that went past the first loop, every Flag
\* option, whether built by flagSpec, help or version, is defined, given
\* or not on the command line or in the environment, and only its flag
\* tells whether it was set: a flag neither given nor set by its variable
\* has flag false.  An option of another kind without default, without a
\* set environment variable and not given on the command line is not
\* defined.
C27_FlagsAlwaysDefined ==
  ScanStarted =>
    \A k \in 1..Len(m_specList) :
      \A spec \in {m_specList[k]} :
        \A v \in {Lookup(m_optionValues, spec.m_longName)} :
          IF spec.m_kind = "kFlag"
          THEN /\ v.isDefined
               /\ v.flag = \/ spec.m_longName \in SeenOptions
                           \/ /\ spec.m_evIsDefined
                              /\ getenv(environ, spec.m_evName) \in Truthy
          ELSE (/\ ~spec.m_defaultIsDefined
                /\ ~EnvSet(spec)
                /\ spec.m_longName \notin SeenOptions) => ~v.isDefined

\* C27 witness: a call with a parameter only, on a registry with a flag
\* made by flagSpec whose variable is not set and a required Integer
\* option without value: the flag is defined and false, the Integer
\* option is not defined.
C27_Witness ==
  /\ exit = "required"
  /\ seen = <<>>
  /\ Len(m_parameters) = 1
  /\ getenv(environ, evFlag) = Unset
  /\ Lookup(m_optionValues, nFlag).isDefined
  /\ ~Lookup(m_optionValues, nFlag).flag
  /\ nCount \in DOMAIN m_optionValues
  /\ ~Lookup(m_optionValues, nCount).isDefined

\* The token is the short or the long form of a singleton of the registry.
IsSingletonToken(t) ==
  \E k \in 1..Len(m_specList) :
    m_specList[k].m_isSingleton /\ t \in OptionTokens(m_specList[k])

ScanErrors == {"format", "nosuch", "duplicate", "noarg", "value", "range"}

\* C29: a call of process that returned false for an error of the token
\* scan left no parameter: such an error arises only while optionsComplete
\* is not set, and no parameter is appended before it is set.  Once it is
\* set every further token is a parameter, and the only failure left is
\* the one of the requiredness check.
C29_NoParameterOnScanError ==
  /\ exit \in ScanErrors =>
       /\ result = FALSE
       /\ m_parameters = <<>>
       /\ latchAt = 0
  /\ m_parameters # <<>> => latchAt > 0
  /\ latchAt > 0 =>
       /\ exit \in {"end", "required"}
       /\ Len(m_parameters) >= Len(arguments) - latchAt
       /\ result = FALSE =>
            \E k \in 1..Len(m_specList) :
              /\ RequiredUnmet(m_specList[k])
              /\ m_errorMessage = RequiredText(m_specList[k])

\* C29 witness: after the first parameter the malformed token "-" and the
\* unknown option -z are parameters, and process returned false for the
\* required option only.
C29_Witness ==
  /\ result = FALSE
  /\ exit = "required"
  /\ latchAt > 0
  /\ m_parameters = << <<"x">>, <<"-">>, <<"-", "z">> >>

\* The addresses the pointers of a map lead to.
AddressesOf(ptrs) == {ptrs[n] : n \in DOMAIN ptrs}

\* C30: the table got from options() and the list got from parameters()
\* after a call of process keep their content when process is called
\* again: every entry of the copy reads as it read when the copy was made,
\* the records of the table after a later call are objects the copy does
\* not lead to, and the copied list is the list of the call it was got
\* after.  The table is the content of the objects its pointers lead to,
\* and writing to an OptionValue got by operator[] leaves the copy, the
\* table and the spec list as they are.
C30_CopiesKeepContent ==
  /\ exit # "none" => m_optionValues = Deref(heap, pointers)
  /\ snapshot.optionsTaken =>
       /\ DOMAIN snapshot.theMap = DOMAIN snapshot.values
       /\ \A n \in DOMAIN snapshot.theMap :
            Lookup(Deref(heap, snapshot.theMap), n) = snapshot.values[n]
       /\ snapshot.optionsAt > callsLeft =>
            AddressesOf(snapshot.theMap) \cap AddressesOf(pointers) = {}
       /\ snapshot.optionsAt = callsLeft => snapshot.theMap = pointers
  /\ snapshot.paramsTaken =>
       /\ snapshot.paramsAt = callsLeft => snapshot.params = m_parameters
       /\ snapshot.paramsAt = callsLeft + 1 =>
            Len(snapshot.params) = earlier.params
  /\ m_specListOkay = SpecListOkay(m_specList)

\* C30 witness: the copies were made after a call that set the flag; after
\* a later call without the flag and with a parameter the copy still reads
\* the flag as set, the table does not, the copied list differs from the
\* list of the later call, and the OptionValue got from the copy was
\* written to.
C30_Witness ==
  /\ snapshot.optionsTaken
  /\ snapshot.paramsTaken
  /\ snapshot.optionsAt > callsLeft
  /\ snapshot.paramsAt > callsLeft
  /\ Lookup(Deref(heap, snapshot.theMap), nFlag).flag
  /\ ~Lookup(m_optionValues, nFlag).flag
  /\ Len(m_parameters) = 1
  /\ snapshot.params # m_parameters
  /\ option = nFlag
  /\ item # Lookup(Deref(heap, snapshot.theMap), nFlag)

=============================================================================
